---- MODULE Spec2Model ----
(***************************************************************************)
(* The limit-order contract of oraiswap: order submission, cancellation,   *)
(* the matching pass (excecute_pair) and the order-book pair life cycle,    *)
(* as state transitions over the contract's key-value storage.             *)
(*                                                                         *)
(* Decimal values.  cosmwasm_std::Decimal is an 18-digit fixed point       *)
(* number.  Every Decimal the matching code handles is an order price      *)
(* produced by Order::get_price, which truncates to 3 fractional digits,   *)
(* or the commission rate / precision, which the model draws from          *)
(* multiples of 0.001.  A Decimal d is therefore represented by the        *)
(* integer d * 1000, which is exact for all of them:                       *)
(*   Uint128 * Decimal  = floor(u * atomics / 10^18) = floor(u * d / 1000) *)
(*   (u * 10^18) / (Decimal * 10^18) = floor(u * 1000 / d)                 *)
(* Amounts stay far below 2^128, so no Uint128 operation overflows here.   *)
(***************************************************************************)
EXTENDS Integers, Sequences, FiniteSets, TLC

\* ---------------------------------------------------------------- bounds
MaxOrders == 3

Bidders == {"alice", "bob"}
Admin == "admin"
\* the callers of the admin-only messages
AdminCallers == {Admin, "bob"}
\* the orders submitted: who submits which direction with which amounts.
\* Prices (ask/offer for Buy, offer/ask for Sell) are 2.0, 1.0, 0.666, 0.25.
OrderShapes ==
    { [direction |-> "Buy",  sender |-> "alice", offer |-> 2, ask |-> 4],
      [direction |-> "Buy",  sender |-> "bob",   offer |-> 4, ask |-> 4],
      [direction |-> "Buy",  sender |-> "alice", offer |-> 1, ask |-> 2],
      [direction |-> "Sell", sender |-> "bob",   offer |-> 2, ask |-> 1],
      [direction |-> "Sell", sender |-> "alice", offer |-> 4, ask |-> 4],
      [direction |-> "Sell", sender |-> "bob",   offer |-> 2, ask |-> 3],
      [direction |-> "Sell", sender |-> "bob",   offer |-> 1, ask |-> 4] }
\* the (base, quote) listings create_order_book_pair is called with
CreatePairInfos == {<<"orai", "usdt">>}
\* submissions with a zero amount
ZeroShapes ==
    { [direction |-> "Buy",  sender |-> "alice", offer |-> 0, ask |-> 4],
      [direction |-> "Sell", sender |-> "bob",   offer |-> 4, ask |-> 0] }
AssetInfos == {"orai", "usdt"}
\* commission rates (Decimal * 1000): the default "0.001" and one half
CommissionRates == {1, 500}
NoPrecision == -1
\* precision of an order book (Decimal * 1000), or none
Precisions == {NoPrecision}
MinQuoteAmounts == {0}
DecimalFractional == 1000
\* ContractInfo.distribution_interval, in seconds
DistributionIntervals == {2}
\* the default reward address of instantiate
RewardWallet == "orai16stq"
\* env.block.time stays below MaxTime
MaxTime == 4
\* A wrapping u64 subtraction is computed modulo 2^16 instead of 2^64: every
\* time and interval of the model is far below both, so the wrapped
\* differences are the same multiples of the modulus apart.
WrapModulus == 2^16

\* refunded[id] counts how often order id was closed with a refund of its
\* remainder (cancel_order or remove_pair); resp is the response of the last call
\* now is env.block.time in seconds, last_distributed the per-pair timestamp
\* of the last reward distribution, submit_msg the SubmitOrder message of the order
\* last accepted through the entry points of contract.rs; converter is the
\* storage of the converter contract (its owner and its token ratios), balance
\* what the limit-order contract holds of each asset
VARIABLES orders, order_by_price, order_by_bidder, ticks, last_order_id,
          orderbooks, executors, last_executor_id, config, refunded, resp,
          last_distributed, now, submit_msg, converter, balance

vars == <<orders, order_by_price, order_by_bidder, ticks, last_order_id,
          orderbooks, executors, last_executor_id, config, refunded, resp,
          last_distributed, now, submit_msg, converter, balance>>

\* ---------------------------------------------------------------- helpers
Restrict(f, D) == [x \in D |-> f[x]]

Min(a, b) == IF a <= b THEN a ELSE b

SetMax(S) == CHOOSE x \in S : \A y \in S : y <= x

SetMin(S) == CHOOSE x \in S : \A y \in S : x <= y

RECURSIVE SortedSeq(_)
SortedSeq(S) == IF S = {} THEN <<>> ELSE <<SetMin(S)>> \o SortedSeq(S \ {SetMin(S)})

\* Uint128 * Decimal: floor(u * d)
MulDec(u, d) == (u * d) \div DecimalFractional

\* (u * 10^18).checked_div(d * 10^18): floor(u / d); the caller handles d = 0
DivDec(u, d) == (u * DecimalFractional) \div d

\* pair_key: the same key for (a, b) and (b, a)
pair_key(infos) == {infos[1], infos[2]}

AssetInfoPairs == {p \in AssetInfos \X AssetInfos : p[1] # p[2]}

\* ---------------------------------------------------------------- Order
\* Order::get_price, as Decimal * 1000
get_price(o) ==
    IF o.direction = "Buy"
    THEN (o.ask_amount * DecimalFractional) \div o.offer_amount
    ELSE (o.offer_amount * DecimalFractional) \div o.ask_amount

\* ---------------------------------------------------------------- storage
\* The four order namespaces of the contract storage as one value.
Storage == [orders |-> orders, by_price |-> order_by_price,
            by_bidder |-> order_by_bidder, ticks |-> ticks]

TickCount(st, tk) == IF tk \in DOMAIN st.ticks THEN st.ticks[tk] ELSE 0

\* state::store_order: save under the primary key and in both indexes; the
\* tick counter grows only for a newly inserted order
store_order(st, pk, o, inserted_new) ==
    LET price == get_price(o)
        tk == <<pk, o.direction, price>>
        ok == <<pk, o.order_id>>
    IN [orders |-> (ok :> o) @@ st.orders,
        by_price |-> (<<pk, price, o.order_id>> :> o.direction) @@ st.by_price,
        by_bidder |-> (<<pk, o.bidder_addr, o.order_id>> :> o.direction) @@ st.by_bidder,
        ticks |-> IF inserted_new
                  THEN (tk :> (TickCount(st, tk) + 1)) @@ st.ticks
                  ELSE st.ticks]

\* state::remove_order: delete from the primary key and both indexes; the
\* tick counter drops by one and the tick is deleted when it reaches zero
remove_order(st, pk, o) ==
    LET price == get_price(o)
        tk == <<pk, o.direction, price>>
        total == TickCount(st, tk)
    IN [orders |-> Restrict(st.orders, DOMAIN st.orders \ {<<pk, o.order_id>>}),
        by_price |-> Restrict(st.by_price,
                              DOMAIN st.by_price \ {<<pk, price, o.order_id>>}),
        by_bidder |-> Restrict(st.by_bidder,
                               DOMAIN st.by_bidder \ {<<pk, o.bidder_addr, o.order_id>>}),
        ticks |-> IF total > 1 THEN [st.ticks EXCEPT ![tk] = total - 1]
                  ELSE Restrict(st.ticks, DOMAIN st.ticks \ {tk})]

\* state::read_orders_with_indexer over [PREFIX_ORDER_BY_PRICE, pair, price],
\* filtered by direction, ascending order id, each order loaded by its key
read_orders_at_price(st, pk, price, direction) ==
    LET ids == {k[3] : k \in {x \in DOMAIN st.by_price :
                                x[1] = pk /\ x[2] = price
                                /\ st.by_price[x] = direction
                                /\ <<pk, x[3]>> \in DOMAIN st.orders}}
        s == SortedSeq(ids)
    IN [n \in 1..Len(s) |-> st.orders[<<pk, s[n]>>]]

\* state::read_orders over [PREFIX_ORDER, pair], ascending order id
read_orders(st, pk) ==
    LET s == SortedSeq({k[2] : k \in {x \in DOMAIN st.orders : x[1] = pk}})
    IN [n \in 1..Len(s) |-> st.orders[<<pk, s[n]>>]]

\* ---------------------------------------------------------------- OrderBook
\* the prices of the ticks of one direction of a pair
TickPrices(st, pk, direction) ==
    {tk[3] : tk \in {x \in DOMAIN st.ticks : x[1] = pk /\ x[2] = direction}}

\* OrderBook::best_price: <<price, found>>, first tick in the given order
best_price(st, pk, direction, descending) ==
    LET ps == TickPrices(st, pk, direction)
    IN IF ps = {} THEN <<0, FALSE>>
       ELSE <<IF descending THEN SetMax(ps) ELSE SetMin(ps), TRUE>>

highest_price(st, pk, direction) == best_price(st, pk, direction, TRUE)

\* lowest_price reading the ticks in descending order
lowest_price_descending(st, pk, direction) == best_price(st, pk, direction, TRUE)

lowest_price(st, pk, direction) == best_price(st, pk, direction, FALSE)

\* the band test without its upper end
within_band_no_upper(highest_buy_price, sell_price, precision_factor) ==
    highest_buy_price >= sell_price

\* orderbook.rs 283-284: sell <= highest buy <= sell * (1 + precision), with
\* precision_factor = 1 + precision as Decimal * 1000
within_band(highest_buy_price, sell_price, precision_factor) ==
    /\ highest_buy_price >= sell_price
    /\ highest_buy_price * DecimalFractional <= sell_price * precision_factor

\* OrderBook::find_match_price: <<found, best buy price, best sell price>>
find_match_price(st, pk, ob) ==
    LET hb == highest_price(st, pk, "Buy")
        highest_buy_price == hb[1]
    IN IF ~hb[2] THEN <<FALSE, 0, 0>>
       ELSE IF ob.precision # NoPrecision
            THEN LET precision_factor == DecimalFractional + ob.precision
                     \* the first hit of the ascending scan is the lowest
                     hits == {s \in TickPrices(st, pk, "Sell") :
                                within_band(highest_buy_price, s, precision_factor)}
                 IN IF hits # {} THEN <<TRUE, highest_buy_price, SetMin(hits)>>
                    ELSE <<FALSE, 0, 0>>
            ELSE LET ls == lowest_price(st, pk, "Sell")
                 IN IF ls[2] /\ highest_buy_price >= ls[1]
                    THEN <<TRUE, highest_buy_price, ls[1]>>
                    ELSE <<FALSE, 0, 0>>

\* OrderBook::find_match_orders: the orders of a direction at a price, FIFO
find_match_orders(st, pk, price, direction) ==
    read_orders_at_price(st, pk, price, direction)

\* fill_order adding the fill to ask_amount instead of filled_ask_amount
fill_order_update_wrong_field(o, ask_amount, offer_amount) ==
    LET fa == o.filled_ask_amount + ask_amount
        fo == o.filled_offer_amount + offer_amount
    IN [o EXCEPT !.ask_amount = @ + ask_amount,
                 !.filled_offer_amount = fo,
                 !.status = IF fa >= o.ask_amount \/ fo = o.offer_amount
                            THEN "Fulfilled" ELSE "PartialFilled"]

\* Order::fill_order on the in-memory order: the order after the fill
fill_order_update(o, ask_amount, offer_amount) ==
    LET fa == o.filled_ask_amount + ask_amount
        fo == o.filled_offer_amount + offer_amount
    IN [o EXCEPT !.filled_ask_amount = fa,
                 !.filled_offer_amount = fo,
                 !.status = IF fa >= o.ask_amount \/ fo = o.offer_amount
                            THEN "Fulfilled" ELSE "PartialFilled"]

\* fill_order storing the updated order as a newly inserted one
fill_order_storage_counted(st, pk, filled) ==
    IF filled.status = "Fulfilled"
    THEN remove_order(st, pk, filled)
    ELSE store_order(st, pk, filled, TRUE)

\* Order::fill_order on the storage: a fulfilled order is removed, any other
\* is stored again
fill_order_storage(st, pk, filled) ==
    IF filled.status = "Fulfilled"
    THEN remove_order(st, pk, filled)
    ELSE store_order(st, pk, filled, FALSE)

\* ---------------------------------------------------------------- matching pass
(***************************************************************************)
(* The state of one run of excecute_pair: the storage st, the in-memory    *)
(* vectors match_buy_orders and match_sell_orders, the executor's two      *)
(* reward amounts, the messages, total_orders, and a panic flag for the    *)
(* unwrap of a division by a zero price.  fills and restores are records   *)
(* of what the run did: one entry per pairing that filled or closed an     *)
(* order, and the number of store_order calls on an order that was not in  *)
(* the storage.                                                            *)
(***************************************************************************)
PassInit(st, buys, sells, rew) ==
    [st |-> st, buys |-> buys, sells |-> sells, rew |-> rew, msgs |-> <<>>,
     total |-> 0, panic |-> FALSE, fills |-> <<>>, restores |-> 0]

\* store_order(.., false) of the pass, counting stores of an absent order
PassStore(S, pk, o) ==
    [S EXCEPT !.st = store_order(S.st, pk, o, FALSE),
              !.restores = @ + (IF <<pk, o.order_id>> \in DOMAIN S.st.orders
                                THEN 0 ELSE 1)]

\* order.rs 206-212: the price of a pairing
pairing_price(one_price, buy_order, sell_order) ==
    IF one_price THEN get_price(buy_order)
    ELSE IF sell_order.order_id < buy_order.order_id
         THEN get_price(buy_order)
         ELSE get_price(sell_order)

\* order.rs 316: the offer amount booked on the buy order for a fill
buy_fill_offer_amount(sell_ask_amount, reward_amount) ==
    sell_ask_amount - reward_amount

\* an order not consumed keeps the status the pass gave it
reopen_forgotten(o) == o

\* order.rs 249, 273, 306, 351: an order not consumed goes back to Open
reopen(o) == [o EXCEPT !.status = "Open"]

\* a closure that credits nothing
closure_credit_none(lef_offer_amount) == 0

\* order.rs 230-233, 255-258: the amount a closure adds to the executor's reward
closure_credit(lef_offer_amount) == lef_offer_amount

\* a commission of the whole amount
commission_whole(amount, rate) == amount

\* order.rs 284, 323: reward_amount = amount * commission_rate
commission(amount, rate) == MulDec(amount, rate)

AllFulfilled(os, n) == \A k \in 1..n : os[k].status = "Fulfilled"

\* order.rs 190-346: one iteration of the inner loop, buy i against sell j
PassInner(S, pk, asset_infos, rate, one_price, i, j) ==
    LET b == S.buys[i]
        s == S.sells[j]
        lef_sell_offer_amount == s.offer_amount - s.filled_offer_amount
        lef_buy_offer_amount == b.offer_amount - b.filled_offer_amount
    IN
    IF s.status = "Fulfilled" \/ b.status = "Fulfilled" THEN S
    ELSE IF lef_buy_offer_amount = 0 \/ lef_sell_offer_amount = 0 THEN S
    ELSE
    LET s1 == [s EXCEPT !.status = "Filling"]
        S1 == PassStore(S, pk, s1)
        match_price == pairing_price(one_price, b, s)
    IN
    IF match_price = 0 THEN [S1 EXCEPT !.panic = TRUE]
    ELSE
    LET lef_sell_ask_amount == MulDec(lef_sell_offer_amount, match_price)
        lef_buy_ask_amount == DivDec(lef_buy_offer_amount, match_price)
        sell_ask_amount == Min(lef_buy_offer_amount, lef_sell_ask_amount)
        sell_offer_amount == Min(DivDec(sell_ask_amount, match_price),
                                 lef_sell_offer_amount)
        base == [buy_id |-> b.order_id, sell_id |-> s.order_id,
                 price |-> match_price,
                 buyer |-> b.bidder_addr, seller |-> s.bidder_addr,
                 buy_price |-> get_price(b), sell_price |-> get_price(s),
                 b_left_offer |-> lef_buy_offer_amount,
                 b_left_ask |-> b.ask_amount - b.filled_ask_amount,
                 s_left_offer |-> lef_sell_offer_amount,
                 s_left_ask |-> s.ask_amount - s.filled_ask_amount,
                 b_prior_done |-> AllFulfilled(S.buys, i - 1),
                 s_prior_done |-> AllFulfilled(S.sells, j - 1)]
    IN
    IF lef_buy_ask_amount = 0 THEN
        \* 229-252: close the buy order, its offer remainder goes to the executor
        LET b2 == [b EXCEPT !.status = "Fulfilled"]
            s2 == reopen(s1)
            S2 == [S1 EXCEPT !.st = remove_order(S1.st, pk, b2),
                             !.rew[2] = @ + closure_credit(lef_buy_offer_amount),
                             !.buys[i] = b2,
                             !.sells[j] = s2,
                             !.fills = Append(@, base @@
                                 [kind |-> "close_buy", sell_ask |-> 0,
                                  sell_offer |-> 0,
                                  reward1 |-> closure_credit(lef_buy_offer_amount),
                                  reward0 |-> 0, b_add_offer |-> 0, b_add_ask |-> 0,
                                  s_add_offer |-> 0, s_add_ask |-> 0])]
        IN PassStore(S2, pk, s2)
    ELSE IF lef_sell_ask_amount = 0 \/ sell_offer_amount = 0 THEN
        \* 254-276: close the sell order, its offer remainder goes to the executor
        LET s2 == [s1 EXCEPT !.status = "Fulfilled"]
            b2 == reopen(b)
            S2 == [S1 EXCEPT !.st = remove_order(S1.st, pk, s2),
                             !.rew[1] = @ + closure_credit(lef_sell_offer_amount),
                             !.buys[i] = b2,
                             !.sells[j] = s2,
                             !.fills = Append(@, base @@
                                 [kind |-> "close_sell", sell_ask |-> 0,
                                  sell_offer |-> 0, reward1 |-> 0,
                                  reward0 |-> closure_credit(lef_sell_offer_amount),
                                  b_add_offer |-> 0, b_add_ask |-> 0,
                                  s_add_offer |-> 0, s_add_ask |-> 0])]
        IN PassStore(S2, pk, b2)
    ELSE
        \* 278-345: fill the sell order, then the buy order
        LET s2 == fill_order_update(s1, sell_ask_amount, sell_offer_amount)
            st2 == fill_order_storage(S1.st, pk, s2)
            restore2 == IF s2.status # "Fulfilled"
                           /\ <<pk, s2.order_id>> \notin DOMAIN S1.st.orders
                        THEN 1 ELSE 0
            paid == sell_ask_amount # 0
            reward1 == IF paid THEN commission(sell_ask_amount, rate) ELSE 0
            sell_ask_left == sell_ask_amount - reward1
            msgs2 == IF paid
                     THEN <<[to |-> s.bidder_addr, info |-> asset_infos[2],
                             amount |-> sell_ask_left]>>
                     ELSE <<>>
            s3 == IF s2.status = "Fulfilled" THEN s2
                  ELSE reopen(s2)
            S3a == [S1 EXCEPT !.st = st2,
                              !.restores = @ + restore2,
                              !.rew[2] = @ + reward1,
                              !.msgs = @ \o msgs2,
                              !.total = @ + (IF s2.status = "Fulfilled" THEN 1 ELSE 0),
                              !.sells[j] = s3]
            S3 == IF s2.status = "Fulfilled" THEN S3a ELSE PassStore(S3a, pk, s3)
            \* 311-345
            b2 == fill_order_update(b, sell_offer_amount,
                                    buy_fill_offer_amount(sell_ask_amount, reward1))
            restore4 == IF b2.status # "Fulfilled"
                           /\ <<pk, b2.order_id>> \notin DOMAIN S3.st.orders
                        THEN 1 ELSE 0
            reward0 == commission(sell_offer_amount, rate)
            entry == base @@
                     [kind |-> "fill", sell_ask |-> sell_ask_amount,
                      sell_offer |-> sell_offer_amount,
                      reward1 |-> reward1, reward0 |-> reward0,
                      b_add_offer |-> buy_fill_offer_amount(sell_ask_amount, reward1),
                      b_add_ask |-> sell_offer_amount,
                      s_add_offer |-> sell_offer_amount,
                      s_add_ask |-> sell_ask_amount]
        IN IF sell_offer_amount # 0
           THEN [S3 EXCEPT !.st = fill_order_storage(S3.st, pk, b2),
                           !.restores = @ + restore4,
                           !.rew[1] = @ + reward0,
                           !.msgs = @ \o <<[to |-> b.bidder_addr,
                                            info |-> asset_infos[1],
                                            amount |-> sell_offer_amount - reward0]>>,
                           !.buys[i] = b2,
                           !.fills = Append(@, entry)]
           ELSE [S3 EXCEPT !.fills = Append(@, entry)]

\* the inner loop over match_sell_orders, from sell j on.  (Each loop state
\* is bound as a value, T \in {..}, so that it is computed once.)
RECURSIVE PassSells(_, _, _, _, _, _, _)
PassSells(S, pk, asset_infos, rate, one_price, i, j) ==
    IF S.panic \/ j > Len(S.sells) THEN S
    ELSE CHOOSE R \in {PassSells(T, pk, asset_infos, rate, one_price, i, j + 1) :
                          T \in {PassInner(S, pk, asset_infos, rate, one_price, i, j)}} :
                TRUE

\* order.rs 184-185: the buy order is marked Filling and stored
PassBuyStart(S, pk, i) ==
    PassStore([S EXCEPT !.buys[i].status = "Filling"], pk,
              [S.buys[i] EXCEPT !.status = "Filling"])

\* order.rs 348-353: a fulfilled buy order is counted, any other is reopened
PassBuyEnd(S, pk, i) ==
    IF S.panic THEN S
    ELSE IF S.buys[i].status = "Fulfilled"
    THEN [S EXCEPT !.total = @ + 1]
    ELSE PassStore([S EXCEPT !.buys[i] = reopen(S.buys[i])], pk, reopen(S.buys[i]))

\* order.rs 183-354: the outer loop over match_buy_orders, from buy i on
RECURSIVE PassBuys(_, _, _, _, _, _)
PassBuys(S, pk, asset_infos, rate, one_price, i) ==
    IF S.panic \/ i > Len(S.buys) THEN S
    ELSE CHOOSE R \in
            {PassBuys(V, pk, asset_infos, rate, one_price, i + 1) :
                V \in {PassBuyEnd(U, pk, i) :
                    U \in {PassSells(T, pk, asset_infos, rate, one_price, i, 1) :
                        T \in {PassBuyStart(S, pk, i)}}}} :
            TRUE

\* ---------------------------------------------------------------- handlers
EmptyFcn == [x \in {} |-> 0]

Executors == {Admin}
OrderIds == 1..MaxOrders

\* the assets the limit-order contract can hold
BankInfos == {"orai", "usdt", "atom"}

\* no SubmitOrder message has been accepted
NoMessage == [variant |-> "none"]

\* the storage after instantiate: the config, last_order_id = 0, nothing else
Init ==
    /\ orders = EmptyFcn
    /\ order_by_price = EmptyFcn
    /\ order_by_bidder = EmptyFcn
    /\ ticks = EmptyFcn
    /\ last_order_id = 0
    /\ orderbooks = EmptyFcn
    /\ executors = EmptyFcn
    /\ last_executor_id = 0
    /\ \E r \in CommissionRates, interval \in DistributionIntervals :
          config = [admin |-> Admin, commission_rate |-> r,
                    reward_address |-> RewardWallet,
                    distribution_interval |-> interval]
    /\ refunded = EmptyFcn
    /\ last_distributed = EmptyFcn
    /\ now = 0
    /\ submit_msg = NoMessage
    /\ converter = [owner |-> Admin, token_ratio |-> EmptyFcn]
    /\ balance = [info \in BankInfos |-> 0]
    /\ resp = [op |-> "instantiate", err |-> "ok", messages |-> <<>>]

SetStorage(st) ==
    /\ orders' = st.orders
    /\ order_by_price' = st.by_price
    /\ order_by_bidder' = st.by_bidder
    /\ ticks' = st.ticks

\* a failed call: the host keeps the storage as it was before the call
Fail(r) ==
    /\ resp' = r
    /\ UNCHANGED <<orders, order_by_price, order_by_bidder, ticks, last_order_id,
                   orderbooks, executors, last_executor_id, config, refunded,
                   last_distributed, now>>

\* submit_order building the order with the id issued before
new_order_stale_id(order_id, direction, sender, assets) ==
    [order_id |-> order_id - 1, direction |-> direction, bidder_addr |-> sender,
     offer_amount |-> assets[1].amount, ask_amount |-> assets[2].amount,
     filled_offer_amount |-> 0, filled_ask_amount |-> 0, status |-> "Open"]

\* the order submit_order builds (order.rs 51-60)
new_order(order_id, direction, sender, assets) ==
    [order_id |-> order_id, direction |-> direction, bidder_addr |-> sender,
     offer_amount |-> assets[1].amount, ask_amount |-> assets[2].amount,
     filled_offer_amount |-> 0, filled_ask_amount |-> 0, status |-> "Open"]

\* submit_order stores the order with inserted_new = true (order.rs 61)
submit_inserted_new == TRUE

\* submit_order rejecting only an order with both amounts zero
has_zero_amount_both(assets) == assets[1].amount = 0 /\ assets[2].amount = 0

\* order.rs 27: one of the two amounts is zero
has_zero_amount(assets) == assets[1].amount = 0 \/ assets[2].amount = 0

\* submit_order taking the other asset as the quote asset
quote_asset_other(direction, assets) ==
    IF direction = "Buy" THEN assets[2] ELSE assets[1]

\* order.rs 33-36: the quote asset of an order, by its direction
quote_asset(direction, assets) ==
    IF direction = "Buy" THEN assets[1] ELSE assets[2]

\* submit_order rejecting an amount equal to the minimum as well
too_small_or_equal(amount, min_quote_coin_amount) == amount <= min_quote_coin_amount

\* order.rs 39: the quote amount is below the minimum of the pair
too_small(amount, min_quote_coin_amount) == amount < min_quote_coin_amount

\* contract.rs 112-124: the quote asset the SubmitOrder message handler tests,
\* found by the base coin of the pair in the two listed assets
message_quote_asset(order_book, assets) ==
    IF order_book.base_coin_info = assets[1].info THEN assets[2] ELSE assets[1]

\* the handler submitting the assets as the message lists them
message_order_assets_as_listed(order_book, direction, assets) ==
    IF direction = "Buy" THEN <<assets[2], assets[1]>> ELSE <<assets[1], assets[2]>>

\* contract.rs 141-176, 334-365: the [offer, ask] assets the handler submits
message_order_assets(order_book, direction, assets) ==
    IF order_book.base_coin_info = assets[1].info
    THEN IF direction = "Buy" THEN <<assets[2], assets[1]>>
                              ELSE <<assets[1], assets[2]>>
    ELSE IF direction = "Buy" THEN <<assets[1], assets[2]>>
                              ELSE <<assets[2], assets[1]>>

\* state::increase_last_order_id: the next id of the persisted counter
increase_last_order_id(last) == last + 1

\* order.rs 21-74; assets[1] is the offer asset, assets[2] the ask asset
submit_order(sender, direction, assets) ==
    LET pk == pair_key(<<assets[1].info, assets[2].info>>)
        r == [op |-> "submit_order", messages |-> <<>>, pair |-> pk,
              direction |-> direction, offer_amount |-> assets[1].amount,
              ask_amount |-> assets[2].amount]
    IN
    IF has_zero_amount(assets)
    THEN Fail(r @@ [err |-> "AssetMustNotBeZero"])
    ELSE IF pk \notin DOMAIN orderbooks
    THEN Fail(r @@ [err |-> "OrderBookNotFound"])
    ELSE
    LET order_book == orderbooks[pk]
    IN
    IF too_small(quote_asset(direction, assets).amount, order_book.min_quote_coin_amount)
    THEN Fail(r @@ [err |-> "TooSmallQuoteAsset"])
    ELSE
    LET order_id == increase_last_order_id(last_order_id)
    IN /\ last_order_id' = order_id
       /\ SetStorage(store_order(Storage, pk,
                                 new_order(order_id, direction, sender, assets),
                                 submit_inserted_new))
       /\ resp' = r @@ [err |-> "ok", order_id |-> order_id, sender |-> sender]
       /\ UNCHANGED <<orderbooks, executors, last_executor_id, config, refunded,
                    last_distributed, now>>

\* contract.rs 112-124: the asset the caller pays, found by the base coin of
\* the pair in the two listed assets
message_paid_asset(order_book, direction, assets) ==
    IF order_book.base_coin_info = assets[1].info
    THEN IF direction = "Buy" THEN assets[2] ELSE assets[1]
    ELSE IF direction = "Buy" THEN assets[1] ELSE assets[2]

\* the coins that are native tokens; the others are cw20 tokens
NativeInfos == {"orai", "atom"}

\* Asset::is_native_token
is_native_token(asset) == asset.info \in NativeInfos

\* Asset::assert_sent_native_token_balance: the funds of the message hold
\* the asset's amount of its denom (no coin of the denom counts as zero)
sent_native_token_balance(asset, funds) ==
    (IF funds.denom = asset.info THEN funds.amount ELSE 0) = asset.amount

\* contract.rs 98-176: ExecuteMsg::SubmitOrder with native funds
execute_submit_order(sender, direction, assets, funds) ==
    LET pk == pair_key(<<assets[1].info, assets[2].info>>)
        r == [op |-> "submit_order", messages |-> <<>>, pair |-> pk,
              direction |-> direction]
    IN
    IF pk \notin DOMAIN orderbooks THEN Fail(r @@ [err |-> "NotFound"])
    ELSE
    LET orderbook_pair == orderbooks[pk]
        paid_asset == message_paid_asset(orderbook_pair, direction, assets)
        quote == message_quote_asset(orderbook_pair, assets)
    IN
    IF ~is_native_token(paid_asset)
    THEN Fail(r @@ [err |-> "MustProvideNativeToken"])
    ELSE IF ~sent_native_token_balance(paid_asset, funds)
    THEN Fail(r @@ [err |-> "NativeTokenBalanceMismatch"])
    ELSE IF too_small(quote.amount, orderbook_pair.min_quote_coin_amount)
    THEN Fail(r @@ [err |-> "TooSmallQuoteAsset"])
    ELSE submit_order(sender, direction,
                      message_order_assets(orderbook_pair, direction, assets))

\* contract.rs 281-370: ExecuteMsg::Receive with Cw20HookMsg::SubmitOrder;
\* sender and amount are those of the Cw20ReceiveMsg
receive_cw20(sender, amount, direction, assets) ==
    LET pk == pair_key(<<assets[1].info, assets[2].info>>)
        r == [op |-> "submit_order", messages |-> <<>>, pair |-> pk,
              direction |-> direction]
    IN
    IF pk \notin DOMAIN orderbooks THEN Fail(r @@ [err |-> "NotFound"])
    ELSE
    LET orderbook_pair == orderbooks[pk]
        paid_asset == message_paid_asset(orderbook_pair, direction, assets)
        quote == message_quote_asset(orderbook_pair, assets)
    IN
    IF paid_asset.amount # amount THEN Fail(r @@ [err |-> "AssetMismatch"])
    ELSE IF too_small(quote.amount, orderbook_pair.min_quote_coin_amount)
    THEN Fail(r @@ [err |-> "TooSmallQuoteAsset"])
    ELSE submit_order(sender, direction,
                      message_order_assets(orderbook_pair, direction, assets))

\* cancel_order refunding the whole offer
left_offer_amount_whole(order) == order.offer_amount

\* order.rs 102: the amount cancel_order refunds
left_offer_amount(order) == order.offer_amount - order.filled_offer_amount

\* cancel_order keeping the cancelled order in the storage
cancel_storage_kept(st, pk, order) ==
    store_order(st, pk, [order EXCEPT !.status = "Cancel"], FALSE)

\* order.rs 120-121: the storage after cancel_order
cancel_storage(st, pk, order) ==
    remove_order(st, pk, [order EXCEPT !.status = "Cancel"])

\* state::read_order: <<found, order>>; loading an absent key is an error
read_order(st, pk, order_id) ==
    IF <<pk, order_id>> \in DOMAIN st.orders
    THEN <<TRUE, st.orders[<<pk, order_id>>]>>
    ELSE <<FALSE, [order_id |-> order_id]>>

\* cancel_order accepting any caller
is_bidder_anyone(order, sender) == TRUE

\* order.rs 97: the caller is the order's bidder
is_bidder(order, sender) == order.bidder_addr = sender

\* order.rs 76-131
cancel_order(sender, order_id, asset_infos) ==
    LET pk == pair_key(asset_infos)
        r == [op |-> "cancel_order", messages |-> <<>>, pair |-> pk,
              order_id |-> order_id, sender |-> sender]
        loaded == read_order(Storage, pk, order_id)
    IN
    IF ~loaded[1]
    THEN Fail(r @@ [err |-> "NotFound"])
    ELSE
    LET order == loaded[2]
    IN
    IF order.status = "Fulfilled" THEN Fail(r @@ [err |-> "OrderFulfilled"])
    ELSE IF order.status = "Filling" THEN Fail(r @@ [err |-> "OrderIsFilling"])
    ELSE IF ~is_bidder(order, sender) THEN Fail(r @@ [err |-> "Unauthorized"])
    ELSE
    LET left == left_offer_amount(order)
        info == IF order.direction = "Buy" THEN asset_infos[2] ELSE asset_infos[1]
        messages == IF left > 0
                    THEN <<[to |-> sender, info |-> info, amount |-> left]>>
                    ELSE <<>>
    IN /\ SetStorage(cancel_storage(Storage, pk, order))
       /\ refunded' = (order_id :> (1 + (IF order_id \in DOMAIN refunded
                                          THEN refunded[order_id] ELSE 0)))
                      @@ refunded
       /\ resp' = [r EXCEPT !.messages = messages]
                  @@ [err |-> "ok", order |-> order]
       /\ UNCHANGED <<last_order_id, orderbooks, executors, last_executor_id, config,
                    last_distributed, now>>

\* order.rs 167: the result of find_match_price is unwrapped; with no match
\* the unwrap panics and the call aborts
match_unwrap_panics(found) == ~found

\* order.rs 133-365
excecute_pair(sender, asset_infos) ==
    LET pk == pair_key(asset_infos)
        r == [op |-> "execute_order_book_pair", messages |-> <<>>]
    IN
    IF pk \notin DOMAIN orderbooks
    THEN Fail(r @@ [err |-> "OrderBookNotFound"])
    ELSE
    \E m \in {find_match_price(Storage, pk, orderbooks[pk])} :
    LET known == <<pk, sender>> \in DOMAIN executors
        executor == IF known THEN executors[<<pk, sender>>]
                    ELSE [address |-> sender,
                          reward_assets |-> <<[info |-> asset_infos[1], amount |-> 0],
                                              [info |-> asset_infos[2], amount |-> 0]>>]
    IN
    IF match_unwrap_panics(m[1])
    THEN Fail(r @@ [err |-> "panic", cross |-> m[1]])
    ELSE
    LET best_buy_price == m[2]
        best_sell_price == m[3]
        match_one_price == best_buy_price = best_sell_price
        match_buy_orders == find_match_orders(Storage, pk, best_buy_price, "Buy")
        match_sell_orders == find_match_orders(Storage, pk, best_sell_price, "Sell")
    IN
    \E S \in {PassBuys(T, pk, asset_infos, config.commission_rate, match_one_price, 1) :
                T \in {PassInit(Storage, match_buy_orders, match_sell_orders,
                                <<executor.reward_assets[1].amount,
                                  executor.reward_assets[2].amount>>)}} :
    LET \* the reward info is overwritten by the caller's asset_infos when credited
        credited(n) == \E k \in 1..Len(S.fills) :
                          IF n = 1
                          THEN S.fills[k].kind \in {"fill", "close_sell"}
                          ELSE S.fills[k].kind \in {"fill", "close_buy"}
        stored == [address |-> executor.address,
                   reward_assets |->
                       [n \in 1..2 |->
                           [info |-> IF credited(n) THEN asset_infos[n]
                                     ELSE executor.reward_assets[n].info,
                            amount |-> S.rew[n]]]]
    IN
    IF S.panic
    THEN Fail(r @@ [err |-> "panic", cross |-> m[1]])
    ELSE /\ SetStorage(S.st)
         /\ executors' = (<<pk, sender>> :> stored) @@ executors
         /\ last_executor_id' = IF known THEN last_executor_id ELSE last_executor_id + 1
         /\ resp' = [r EXCEPT !.messages = S.msgs]
                    @@ [err |-> "ok", sender |-> sender, asset_infos |-> asset_infos,
                        cross |-> m[1], fills |-> S.fills,
                        total_orders |-> S.total, restores |-> S.restores,
                        closed |-> {S.buys[k].order_id : k \in
                                       {x \in 1..Len(S.buys) : S.buys[x].status = "Fulfilled"}}
                                   \cup {S.sells[k].order_id : k \in
                                       {x \in 1..Len(S.sells) : S.sells[x].status = "Fulfilled"}},
                        buy_price |-> best_buy_price, sell_price |-> best_sell_price]
         /\ UNCHANGED <<last_order_id, orderbooks, config, refunded, last_distributed, now>>

\* an admin check that lets every caller pass
not_admin_never(admin, sender) == FALSE

\* contract.rs 198, 219, 249, order.rs 376, 441: the caller is not the stored admin
not_admin(admin, sender) == admin # sender

\* a lookup that finds no order book
book_exists_never(obs, pk) == FALSE

\* contract.rs 258-263: read_orderbook finds a book under the pair key
book_exists(obs, pk) == pk \in DOMAIN obs

\* contract.rs 237-279
execute_create_pair(sender, base_coin_info, quote_coin_info, spread, min_quote_coin_amount) ==
    LET pk == pair_key(<<base_coin_info, quote_coin_info>>)
        r == [op |-> "create_order_book_pair", messages |-> <<>>, sender |-> sender,
              base_coin_info |-> base_coin_info, quote_coin_info |-> quote_coin_info]
    IN
    IF not_admin(config.admin, sender) THEN Fail(r @@ [err |-> "Unauthorized"])
    ELSE IF book_exists(orderbooks, pk)
    THEN Fail(r @@ [err |-> "OrderBookAlreadyExists"])
    ELSE /\ orderbooks' = (pk :> [base_coin_info |-> base_coin_info,
                                  quote_coin_info |-> quote_coin_info,
                                  precision |-> spread,
                                  min_quote_coin_amount |-> min_quote_coin_amount])
                          @@ orderbooks
         /\ resp' = r @@ [err |-> "ok"]
         /\ UNCHANGED <<orders, order_by_price, order_by_bidder, ticks, last_order_id,
                        executors, last_executor_id, config, refunded,
                        last_distributed, now>>

\* remove_pair refunding the whole offer
remove_refund_whole(order) == order.offer_amount

\* order.rs 455: the amount remove_pair refunds for an order
remove_refund(order) == order.offer_amount - order.filled_offer_amount

\* order.rs 453-482: the refunds and the storage after the loop over all orders
RECURSIVE remove_all(_, _, _, _, _)
remove_all(R, pk, asset_infos, all_orders, n) ==
    IF n > Len(all_orders) THEN R
    ELSE
    LET order == all_orders[n]
        left == remove_refund(order)
        info == IF order.direction = "Buy" THEN asset_infos[2] ELSE asset_infos[1]
        msg == IF left > 0
               THEN <<[to |-> order.bidder_addr, info |-> info, amount |-> left]>>
               ELSE <<>>
    IN CHOOSE X \in {remove_all(T, pk, asset_infos, all_orders, n + 1) :
                        T \in {[st |-> remove_order(R.st, pk,
                                                    [order EXCEPT !.status = "Cancel"]),
                                msgs |-> R.msgs \o msg]}} :
          TRUE

\* order.rs 433-492
remove_pair(sender, asset_infos) ==
    LET pk == pair_key(asset_infos)
        r == [op |-> "remove_order_book_pair", messages |-> <<>>, sender |-> sender]
    IN
    IF not_admin(config.admin, sender) THEN Fail(r @@ [err |-> "Unauthorized"])
    ELSE IF pk \notin DOMAIN orderbooks THEN Fail(r @@ [err |-> "OrderBookNotFound"])
    ELSE
    \E all_orders \in {read_orders(Storage, pk)} :
    \E R \in {remove_all(T, pk, asset_infos, all_orders, 1) :
                T \in {[st |-> Storage, msgs |-> <<>>]}} :
    LET ids == {all_orders[k].order_id : k \in 1..Len(all_orders)}
    IN /\ SetStorage(R.st)
       /\ orderbooks' = Restrict(orderbooks, DOMAIN orderbooks \ {pk})
       /\ refunded' = [id \in DOMAIN refunded \cup ids |->
                          (IF id \in DOMAIN refunded THEN refunded[id] ELSE 0)
                          + (IF id \in ids THEN 1 ELSE 0)]
       /\ resp' = [r EXCEPT !.messages = R.msgs]
                  @@ [err |-> "ok", removed |-> all_orders]
       /\ UNCHANGED <<last_order_id, executors, last_executor_id, config,
                    last_distributed, now>>

\* ---------------------------------------------------------------- admin
\* contract.rs 189-207
execute_update_admin(sender, admin) ==
    LET r == [op |-> "update_admin", messages |-> <<>>, sender |-> sender,
              admin |-> admin]
    IN
    IF not_admin(config.admin, sender) THEN Fail(r @@ [err |-> "Unauthorized"])
    ELSE /\ config' = [config EXCEPT !.admin = admin]
         /\ resp' = r @@ [err |-> "ok"]
         /\ UNCHANGED <<orders, order_by_price, order_by_bidder, ticks, last_order_id,
                        orderbooks, executors, last_executor_id, refunded,
                        last_distributed, now>>

\* an Option of a message field: None is <<>>, Some(v) is <<v>>
None == <<>>

Some(v) == <<v>>

\* contract.rs 209-235
execute_update_config(sender, reward_address, commission_rate) ==
    LET r == [op |-> "update_config", messages |-> <<>>, sender |-> sender]
    IN
    IF not_admin(config.admin, sender) THEN Fail(r @@ [err |-> "Unauthorized"])
    ELSE /\ config' = [config EXCEPT
                          !.reward_address = IF reward_address # None
                                             THEN reward_address[1] ELSE @,
                          !.commission_rate = IF commission_rate # None
                                              THEN commission_rate[1] ELSE @]
         /\ resp' = r @@ [err |-> "ok"]
         /\ UNCHANGED <<orders, order_by_price, order_by_bidder, ticks, last_order_id,
                        orderbooks, executors, last_executor_id, refunded,
                        last_distributed, now>>

\* ---------------------------------------------------------------- rewards
\* the addresses of the model in the ascending order of the executor bucket
Addresses == <<"admin", "alice", "bob">>

\* state::read_excecutors(pair_key, None, Some(limit), None): the executor
\* records of a pair in ascending address order, at most limit of them
read_excecutors(ex, pk, limit) ==
    LET known == SelectSeq(Addresses, LAMBDA a : <<pk, a>> \in DOMAIN ex)
        list == [n \in 1..Len(known) |-> ex[<<pk, known[n]>>]]
    IN SubSeq(list, 1, Min(limit, Len(list)))

\* order.rs 388-389: the timestamp a pair never distributed before is given,
\* by a wrapping subtraction
default_last_distributed(time, distribution_interval) ==
    (time - distribution_interval - 1) % WrapModulus

\* order.rs 388-389: now - distribution_interval - 1 is below zero.  The
\* subtraction is evaluated before unwrap_or, whether or not a timestamp is stored.
default_underflows(time, distribution_interval) == time < distribution_interval + 1

\* order.rs 388-391: the seconds since the last distribution of the pair
last_time_elapsed(ld, pk, time, distribution_interval) ==
    LET last == IF pk \in DOMAIN ld THEN ld[pk]
                ELSE default_last_distributed(time, distribution_interval)
    IN (time - last) % WrapModulus

\* order.rs 393-396: the pair is skipped
interval_not_elapsed(elapsed, distribution_interval) == elapsed < distribution_interval

\* order.rs 422-424: the record stored for a paid executor
paid_executor(executor) ==
    [executor EXCEPT !.reward_assets[1].amount = 0, !.reward_assets[2].amount = 0]

\* order.rs 401-425: both balances of one executor are paid in the listed
\* assets and the record is stored with zero balances
pay_executor(D, pk, asset_info, executor) ==
    LET pay == <<[to |-> executor.address, info |-> asset_info[1],
                  amount |-> executor.reward_assets[1].amount],
                 [to |-> executor.address, info |-> asset_info[2],
                  amount |-> executor.reward_assets[2].amount]>>
    IN [D EXCEPT !.msgs = @ \o pay,
                 !.executors = (<<pk, executor.address>> :> paid_executor(executor)) @@ @]

\* order.rs 401-425: the loop over list_executor, from executor n on
RECURSIVE pay_executors(_, _, _, _, _)
pay_executors(D, pk, asset_info, list_executor, n) ==
    IF n > Len(list_executor) THEN D
    ELSE CHOOSE R \in {pay_executors(T, pk, asset_info, list_executor, n + 1) :
                          T \in {pay_executor(D, pk, asset_info, list_executor[n])}} :
                TRUE

\* order.rs 383-426: one iteration of the loop over asset_infos.  checked
\* tells whether the build traps arithmetic overflow (overflow-checks) or wraps.
distribute_pair(D, asset_info, checked) ==
    LET pk == pair_key(asset_info)
        num_executor == last_executor_id
        list_executor == read_excecutors(D.executors, pk, num_executor)
        interval == config.distribution_interval
        elapsed == last_time_elapsed(D.last_distributed, pk, now, interval)
        entry == [pair |-> pk, asset_info |-> asset_info, before |-> list_executor,
                  first |-> Len(D.msgs) + 1, elapsed |-> elapsed,
                  known |-> pk \in DOMAIN D.last_distributed]
    IN IF checked /\ default_underflows(now, interval)
       THEN [D EXCEPT !.panic = TRUE]
       ELSE IF interval_not_elapsed(elapsed, interval)
       THEN [D EXCEPT !.log = Append(@, entry @@ [paid |-> FALSE])]
       ELSE CHOOSE R \in
               {pay_executors(T, pk, asset_info, list_executor, 1) :
                   T \in {[D EXCEPT !.last_distributed = (pk :> now) @@ @,
                                    !.log = Append(@, entry @@ [paid |-> TRUE])]}} :
               TRUE

\* order.rs 383-426: the loop over asset_infos, from listing n on
RECURSIVE distribute_pairs(_, _, _, _)
distribute_pairs(D, asset_infos, checked, n) ==
    IF D.panic \/ n > Len(asset_infos) THEN D
    ELSE CHOOSE R \in {distribute_pairs(T, asset_infos, checked, n + 1) :
                          T \in {distribute_pair(D, asset_infos[n], checked)}} :
                TRUE

\* order.rs 367-431
distribute_reward(sender, asset_infos, checked) ==
    LET r == [op |-> "distribute_reward", messages |-> <<>>, sender |-> sender,
              asset_infos |-> asset_infos]
    IN
    IF not_admin(config.admin, sender) THEN Fail(r @@ [err |-> "Unauthorized"])
    ELSE
    \E D \in {distribute_pairs(T, asset_infos, checked, 1) :
                T \in {[executors |-> executors, last_distributed |-> last_distributed,
                        msgs |-> <<>>, panic |-> FALSE, log |-> <<>>]}} :
    IF D.panic THEN Fail(r @@ [err |-> "panic"])
    ELSE /\ executors' = D.executors
         /\ last_distributed' = D.last_distributed
         /\ resp' = [r EXCEPT !.messages = D.msgs]
                    @@ [err |-> "ok", processed |-> D.log, time |-> now]
         /\ UNCHANGED <<orders, order_by_price, order_by_bidder, ticks, last_order_id,
                        orderbooks, last_executor_id, config, refunded, now>>

\* ---------------------------------------------------------------- pool
\* packages/oraiswap/src/pair.rs.  The amounts are Uint128, the internal
\* values Uint256; the model keeps the two widths at 8 and 16 bits, so that a
\* product of two amounts fits the wide type as in the code.
NarrowModulus == 2^8
WideModulus == 2^16
\* the fractional digits of Decimal256
DecimalPlaces == 18

\* x * 10^n modulo c
RECURSIVE TimesTenMod(_, _, _)
TimesTenMod(x, c, n) ==
    IF n = 0 THEN x % c ELSE TimesTenMod((x * 10) % c, c, n - 1)

\* Decimal256::from_ratio(b, c) is b / c cut to 18 fractional digits: it is
\* exact when c divides b * 10^18
ratio_exact(b, c) == TimesTenMod(b, c, DecimalPlaces) = 0

\* a * Decimal256::from_ratio(b, c) as Uint256, for c > 0: the product of a
\* and the cut ratio, floored.  The cut ratio is below b / c by less than
\* 10^-18, so the product is floor(a * b / c), or one less when a * b / c is
\* whole and the ratio was cut.
mul_ratio(a, b, c) ==
    IF ~ratio_exact(b, c) /\ a > 0 /\ (a * b) % c = 0
    THEN (a * b) \div c - 1
    ELSE (a * b) \div c

\* pair.rs 135-137, 180-182: the low 16 bytes of the wide value
down_cast(wide) == wide % NarrowModulus

\* pair.rs 104-139; commission_rate as Decimal * 1000
compute_swap(offer_pool, ask_pool, offer_amount, commission_rate) ==
    LET in == [op |-> "compute_swap", messages |-> <<>>,
               offer_pool |-> offer_pool, ask_pool |-> ask_pool,
               amount |-> offer_amount, commission_rate |-> commission_rate]
    IN
    IF offer_pool = 0 THEN in @@ [err |-> "OfferPoolIsZero"]
    ELSE
    LET cp == offer_pool * ask_pool
        \* 122-123
        quotient == mul_ratio(1, cp, offer_pool + offer_amount)
        return_amount == ask_pool - quotient
        \* 126-127
        linear == mul_ratio(offer_amount, ask_pool, offer_pool)
        spread_amount == linear - return_amount
        \* 129
        commission_amount == MulDec(return_amount, commission_rate)
    IN
    IF linear >= WideModulus \/ linear < return_amount
    THEN in @@ [err |-> "panic"]
    ELSE in @@ [err |-> "ok",
                raw |-> return_amount,
                wide |-> <<return_amount - commission_amount, spread_amount,
                           commission_amount>>,
                returned |-> <<down_cast(return_amount - commission_amount),
                               down_cast(spread_amount),
                               down_cast(commission_amount)>>]

\* pair.rs 141-183; commission_rate as Decimal * 1000
compute_offer_amount(offer_pool, ask_pool, ask_amount, commission_rate) ==
    LET in == [op |-> "compute_offer_amount", messages |-> <<>>,
               offer_pool |-> offer_pool, ask_pool |-> ask_pool,
               amount |-> ask_amount, commission_rate |-> commission_rate]
        cp == offer_pool * ask_pool
    IN
    \* 155-156: Decimal256::one() - commission_rate, and one divided by it
    IF commission_rate >= DecimalFractional THEN in @@ [err |-> "panic"]
    ELSE
    LET before_commission_deduction ==
            mul_ratio(ask_amount, DecimalFractional,
                      DecimalFractional - commission_rate)
    IN
    \* 158-160: the subtraction underflows, or the ratio has a zero denominator
    IF before_commission_deduction >= ask_pool THEN in @@ [err |-> "panic"]
    ELSE
    LET offer_amount == cp \div (ask_pool - before_commission_deduction) - offer_pool
    IN
    \* 163-164: Decimal256::from_ratio(ask_pool, offer_pool)
    IF offer_pool = 0 THEN in @@ [err |-> "panic"]
    ELSE
    LET before_spread_deduction == mul_ratio(offer_amount, ask_pool, offer_pool)
        spread_amount == IF before_spread_deduction > before_commission_deduction
                         THEN before_spread_deduction - before_commission_deduction
                         ELSE 0
        commission_amount == MulDec(before_commission_deduction, commission_rate)
        computed == [spread |-> spread_amount, commission |-> commission_amount]
    IN
    IF before_spread_deduction >= WideModulus THEN in @@ [err |-> "panic"]
    ELSE IF spread_amount = 0 \/ commission_amount = 0
    THEN in @@ [err |-> "TooSmallOfferAmount", computed |-> computed]
    ELSE in @@ [err |-> "ok", computed |-> computed,
                wide |-> <<offer_amount, spread_amount, commission_amount>>,
                returned |-> <<down_cast(offer_amount), down_cast(spread_amount),
                               down_cast(commission_amount)>>]

\* ---------------------------------------------------------------- converter
\* contracts/oraiswap_converter/src/contract.rs.  Token amounts with 18
\* decimals are beyond the integers of the checker, so a Uint128 amount is kept
\* as m * 10^e with m not a multiple of ten (zero as m = 0, e = 0).
RECURSIVE Normal(_, _)
Normal(m, e) ==
    IF m = 0 THEN [m |-> 0, e |-> 0]
    ELSE IF m % 10 = 0 THEN Normal(m \div 10, e + 1)
    ELSE [m |-> m, e |-> e]

\* the largest m of an amount of the model
MaxMantissa == 999

\* the amount is at most Uint128::MAX = 340282366920938463463374607431768211455
\* (for m <= MaxMantissa)
fits_uint128(a) ==
    \/ a.e <= 35
    \/ a.e <= 38 /\ a.m * 10^(a.e - 36) <= 340

\* floor(a / 10^k)
shift_down(a, k) ==
    IF a.e >= k THEN Normal(a.m, a.e - k)
    ELSE IF k - a.e > 3 THEN Normal(0, 0)
    ELSE Normal(a.m \div 10^(k - a.e), 0)

\* a Decimal that is zero or a power of ten, 10^exp
ZeroRatio == [zero |-> TRUE, exp |-> 0]

\* the exponent of the ratio with the decimals the wrong way round
ratio_exponent_inverted(from, to) == from.decimals - to.decimals

\* contract.rs 139-142: 10^to.decimals over 10^from.decimals is ten to the
\* difference of the decimals
ratio_exponent(from, to) == to.decimals - from.decimals

\* Decimal::from_ratio(10^to.decimals, 10^from.decimals): a Decimal keeps
\* 18 fractional digits in 128 bits, so 10^21 and more overflow and less than
\* 10^-18 is cut to zero
ratio_overflows(exp) == exp >= 21

from_ratio(exp) == IF exp < -18 THEN ZeroRatio ELSE [zero |-> FALSE, exp |-> exp]

\* Uint128 * Decimal, contract.rs 73 and 176: floor(amount * ratio)
mul_decimal(amount, ratio) ==
    IF ratio.zero THEN Normal(0, 0)
    ELSE IF ratio.exp >= 0 THEN Normal(amount.m, amount.e + ratio.exp)
    ELSE shift_down(amount, -ratio.exp)

\* Converter128::checked_div_decimal: the amount divided by the ratio, cut to
\* a whole amount
div_decimal(amount, ratio) ==
    IF ratio.exp >= 0 THEN shift_down(amount, ratio.exp)
    ELSE Normal(amount.m, amount.e - ratio.exp)

\* AssetInfo::to_vec, the storage key of an asset
asset_key(info) == info

\* a call of the converter leaves the limit-order contract alone
ConverterOnly ==
    UNCHANGED <<orders, order_by_price, order_by_bidder, ticks, last_order_id,
                orderbooks, executors, last_executor_id, config, refunded,
                last_distributed, now, submit_msg, balance>>

\* a call that stores nothing: it fails, or it only emits its messages
ConverterRespond(r) == resp' = r /\ UNCHANGED converter /\ ConverterOnly

\* contract.rs 125-149
update_pair(sender, from, to) ==
    LET r == [op |-> "update_pair", messages |-> <<>>, from |-> from, to |-> to]
        exp == ratio_exponent(from, to)
    IN
    IF converter.owner # sender THEN ConverterRespond(r @@ [err |-> "unauthorized"])
    ELSE IF ratio_overflows(exp) THEN ConverterRespond(r @@ [err |-> "panic"])
    ELSE /\ converter' = [converter EXCEPT !.token_ratio =
                              (asset_key(from.info) :>
                                  [info |-> to.info, ratio |-> from_ratio(exp)]) @@ @]
         /\ resp' = r @@ [err |-> "ok"]
         /\ ConverterOnly

\* contract.rs 151-162
unregister_pair(sender, from) ==
    LET r == [op |-> "unregister_pair", messages |-> <<>>, from |-> from]
    IN
    IF converter.owner # sender THEN ConverterRespond(r @@ [err |-> "unauthorized"])
    ELSE /\ converter' = [converter EXCEPT !.token_ratio =
                              Restrict(@, DOMAIN @ \ {asset_key(from.info)})]
         /\ resp' = r @@ [err |-> "ok"]
         /\ ConverterOnly

\* contract.rs 169-187: the loop over the attached coins, from coin n on; the
\* result is the messages, or a failure
RECURSIVE convert_coins(_, _, _, _)
convert_coins(sender, funds, n, messages) ==
    IF n > Len(funds) THEN [err |-> "ok", messages |-> messages]
    ELSE
    LET native_coin == funds[n]
    IN
    IF native_coin.denom \notin DOMAIN converter.token_ratio
    THEN [err |-> "NotFound", messages |-> <<>>]
    ELSE
    LET token_ratio == converter.token_ratio[native_coin.denom]
        to_amount == mul_decimal(native_coin.amount, token_ratio.ratio)
    IN
    IF ~fits_uint128(to_amount) THEN [err |-> "panic", messages |-> <<>>]
    ELSE convert_coins(sender, funds, n + 1,
                       Append(messages, [to |-> sender, info |-> token_ratio.info,
                                         amount |-> to_amount]))

\* contract.rs 164-191
convert(sender, funds) ==
    LET done == convert_coins(sender, funds, 1, <<>>)
    IN ConverterRespond([op |-> "convert", sender |-> sender, funds |-> funds,
                      err |-> done.err, messages |-> done.messages])

\* contract.rs 193-224
convert_reverse(sender, funds, from_asset) ==
    LET r == [op |-> "convert_reverse", messages |-> <<>>, sender |-> sender,
              funds |-> funds, from |-> from_asset]
        key == asset_key(from_asset)
    IN
    IF key \notin DOMAIN converter.token_ratio
    THEN ConverterRespond(r @@ [err |-> "NotFound"])
    ELSE
    LET token_ratio == converter.token_ratio[key]
        found == {n \in 1..Len(funds) : funds[n].denom = token_ratio.info}
    IN
    IF ~is_native_token(token_ratio) THEN ConverterRespond(r @@ [err |-> "invalid"])
    ELSE IF found = {} THEN ConverterRespond(r @@ [err |-> "no native token"])
    ELSE IF token_ratio.ratio.zero THEN ConverterRespond(r @@ [err |-> "DivideByZero"])
    ELSE
    LET native_coin == funds[SetMin(found)]
        amount == div_decimal(native_coin.amount, token_ratio.ratio)
    IN
    IF ~fits_uint128(amount) THEN ConverterRespond(r @@ [err |-> "Overflow"])
    ELSE ConverterRespond([r EXCEPT !.messages =
                            <<[to |-> sender, info |-> from_asset, amount |-> amount]>>]
                       @@ [err |-> "ok", registered |-> token_ratio])

\* contract.rs 62-123.  token is the token contract calling the hook
\* (info.sender), sender and amount the fields of the Cw20ReceiveMsg, hook the
\* message decoded from it
invoked_by_any_token(contract_addr, sender) == FALSE

\* contract.rs 95: the registered destination token is not the token contract
\* that invoked the hook (contract_addr != info.sender)
invoked_by_other_token(contract_addr, sender) == contract_addr # sender

converter_receive_cw20(token, sender, amount, hook) ==
    LET r == [op |-> "receive_cw20", messages |-> <<>>, token |-> token,
              sender |-> sender, amount |-> amount, hook |-> hook]
    IN
    IF hook.variant = "Convert"
    THEN \* 69-89
         IF token \notin DOMAIN converter.token_ratio
         THEN ConverterRespond(r @@ [err |-> "NotFound"])
         ELSE LET token_ratio == converter.token_ratio[token]
                  to_amount == mul_decimal(amount, token_ratio.ratio)
              IN IF ~fits_uint128(to_amount) THEN ConverterRespond(r @@ [err |-> "panic"])
                 ELSE ConverterRespond([r EXCEPT !.messages =
                                        <<[to |-> sender, info |-> token_ratio.info,
                                           amount |-> to_amount]>>]
                                    @@ [err |-> "ok", registered |-> token_ratio])
    ELSE IF hook.variant = "ConvertReverse"
    THEN \* 91-121
         IF asset_key(hook.from) \notin DOMAIN converter.token_ratio
         THEN ConverterRespond(r @@ [err |-> "NotFound"])
         ELSE LET token_ratio == converter.token_ratio[asset_key(hook.from)]
                  amount_ == div_decimal(amount, token_ratio.ratio)
              IN IF is_native_token(token_ratio)
                 THEN ConverterRespond(r @@ [err |-> "invalid"])
                 ELSE IF invoked_by_other_token(token_ratio.info, token)
                 THEN ConverterRespond(r @@ [err |-> "invalid"])
                 ELSE IF token_ratio.ratio.zero
                 THEN ConverterRespond(r @@ [err |-> "DivideByZero"])
                 ELSE IF ~fits_uint128(amount_)
                 THEN ConverterRespond(r @@ [err |-> "Overflow"])
                 ELSE ConverterRespond([r EXCEPT !.messages =
                                        <<[to |-> sender, info |-> hook.from,
                                           amount |-> amount_]>>]
                                    @@ [err |-> "ok", registered |-> token_ratio])
    ELSE ConverterRespond(r @@ [err |-> "invalid"])

\* ---------------------------------------------------------------- specification
SubmitOrder ==
    /\ last_order_id < MaxOrders
    /\ \E shape \in OrderShapes \cup ZeroShapes, infos \in AssetInfoPairs :
          submit_order(shape.sender, shape.direction,
                       <<[info |-> infos[1], amount |-> shape.offer],
                         [info |-> infos[2], amount |-> shape.ask]>>)
    /\ UNCHANGED <<submit_msg, converter, balance>>

CancelOrder ==
    /\ \E sender \in Bidders, order_id \in OrderIds, asset_infos \in AssetInfoPairs :
        cancel_order(sender, order_id, asset_infos)
    /\ UNCHANGED <<submit_msg, converter, balance>>

ExecuteOrderBookPair ==
    /\ \E sender \in Executors, asset_infos \in AssetInfoPairs :
        excecute_pair(sender, asset_infos)
    /\ UNCHANGED <<submit_msg, converter, balance>>

CreateOrderBookPair ==
    /\ \E sender \in AdminCallers, infos \in CreatePairInfos, spread \in Precisions,
       min_quote_coin_amount \in MinQuoteAmounts :
        execute_create_pair(sender, infos[1], infos[2], spread, min_quote_coin_amount)
    /\ UNCHANGED <<submit_msg, converter, balance>>

RemoveOrderBookPair ==
    /\ \E sender \in AdminCallers, asset_infos \in AssetInfoPairs :
        remove_pair(sender, asset_infos)
    /\ UNCHANGED <<submit_msg, converter, balance>>

Next ==
    \/ SubmitOrder
    \/ CancelOrder
    \/ ExecuteOrderBookPair
    \/ CreateOrderBookPair
    \/ RemoveOrderBookPair

Spec == Init /\ [][Next]_vars

\* ------------------------------------- specification with a precision band
\* The order book is created with a precision (spread) of 0.5.
BandPrecisions == {500}

CreateOrderBookPairBand ==
    /\ \E sender \in AdminCallers, infos \in CreatePairInfos, spread \in BandPrecisions,
       min_quote_coin_amount \in MinQuoteAmounts :
        execute_create_pair(sender, infos[1], infos[2], spread, min_quote_coin_amount)
    /\ UNCHANGED <<submit_msg, converter, balance>>

NextBand ==
    \/ SubmitOrder
    \/ CancelOrder
    \/ ExecuteOrderBookPair
    \/ CreateOrderBookPairBand
    \/ RemoveOrderBookPair

SpecBand == Init /\ [][NextBand]_vars

\* ------------------------------------------- specification with two pairs
\* Two order books that share the quote coin, each created with a minimum
\* quote amount, two callers of the matching pass, and orders of 100, 50,
\* 49 and 10 units.  Every call lists the pair as (base, quote); a Buy order
\* offers the quote coin and a Sell order asks it (contract.rs 106-108).
PairsInfos == {<<"orai", "usdt">>, <<"atom", "usdt">>}
PairsMinQuoteAmounts == {50}
PairsExecutors == {Admin, "bob"}
PairsShapes ==
    { [direction |-> "Buy",  sender |-> "alice", offer |-> 100, ask |-> 100],
      [direction |-> "Buy",  sender |-> "alice", offer |-> 100, ask |-> 10],
      [direction |-> "Buy",  sender |-> "bob",   offer |-> 10,  ask |-> 100],
      [direction |-> "Sell", sender |-> "bob",   offer |-> 100, ask |-> 100],
      [direction |-> "Sell", sender |-> "bob",   offer |-> 50,  ask |-> 50],
      [direction |-> "Sell", sender |-> "alice", offer |-> 49,  ask |-> 49],
      [direction |-> "Sell", sender |-> "alice", offer |-> 100, ask |-> 10] }

\* the assets of an order on the pair (base, quote): offer first, ask second
order_assets(shape, infos) ==
    IF shape.direction = "Buy"
    THEN <<[info |-> infos[2], amount |-> shape.offer],
           [info |-> infos[1], amount |-> shape.ask]>>
    ELSE <<[info |-> infos[1], amount |-> shape.offer],
           [info |-> infos[2], amount |-> shape.ask]>>

SubmitOrderPairs ==
    /\ last_order_id < MaxOrders
    /\ \E shape \in PairsShapes, infos \in PairsInfos :
          submit_order(shape.sender, shape.direction, order_assets(shape, infos))
    /\ UNCHANGED <<submit_msg, converter, balance>>

CancelOrderPairs ==
    /\ \E sender \in Bidders, order_id \in OrderIds, asset_infos \in PairsInfos :
        cancel_order(sender, order_id, asset_infos)
    /\ UNCHANGED <<submit_msg, converter, balance>>

ExecuteOrderBookPairPairs ==
    /\ \E sender \in PairsExecutors, asset_infos \in PairsInfos :
        excecute_pair(sender, asset_infos)
    /\ UNCHANGED <<submit_msg, converter, balance>>

CreateOrderBookPairPairs ==
    /\ \E infos \in PairsInfos, min_quote_coin_amount \in PairsMinQuoteAmounts :
        execute_create_pair(Admin, infos[1], infos[2], NoPrecision, min_quote_coin_amount)
    /\ UNCHANGED <<submit_msg, converter, balance>>

RemoveOrderBookPairPairs ==
    /\ \E asset_infos \in PairsInfos : remove_pair(Admin, asset_infos)
    /\ UNCHANGED <<submit_msg, converter, balance>>

NextPairs ==
    \/ SubmitOrderPairs
    \/ CancelOrderPairs
    \/ ExecuteOrderBookPairPairs
    \/ CreateOrderBookPairPairs
    \/ RemoveOrderBookPairPairs

SpecPairs == Init /\ [][NextPairs]_vars

\* ------------------------------------- specification with reward distribution
\* One order book with buy and sell orders at the price 2.0 that cross, a
\* commission rate of one half, two callers of the matching
\* pass, block time advancing, and distribute_reward called with lists of one
\* or two pair listings: the pair of the book, listed either way round, and
\* a second pair that has no executors.
RewardOrderInfos == {<<"orai", "usdt">>}
RewardShapes ==
    { [direction |-> "Buy",  sender |-> "alice", offer |-> 100, ask |-> 200],
      [direction |-> "Sell", sender |-> "bob",   offer |-> 100, ask |-> 50] }
RewardLists ==
    { <<<<"orai", "usdt">>>>, <<<<"usdt", "orai">>>>, <<<<"atom", "usdt">>>>,
      <<<<"orai", "usdt">>, <<"atom", "usdt">>>>,
      <<<<"atom", "usdt">>, <<"orai", "usdt">>>> }

InitReward == Init /\ config.commission_rate = 500

SubmitOrderReward ==
    /\ last_order_id < MaxOrders
    /\ \E shape \in RewardShapes, infos \in RewardOrderInfos :
          submit_order(shape.sender, shape.direction, order_assets(shape, infos))
    /\ UNCHANGED <<submit_msg, converter, balance>>

ExecuteOrderBookPairReward ==
    /\ \E sender \in PairsExecutors, asset_infos \in RewardOrderInfos :
        excecute_pair(sender, asset_infos)
    /\ UNCHANGED <<submit_msg, converter, balance>>

CreateOrderBookPairReward ==
    /\ \E infos \in RewardOrderInfos, min_quote_coin_amount \in PairsMinQuoteAmounts :
        execute_create_pair(Admin, infos[1], infos[2], NoPrecision, min_quote_coin_amount)
    /\ UNCHANGED <<submit_msg, converter, balance>>

DistributeReward ==
    /\ \E sender \in AdminCallers, asset_infos \in RewardLists, checked \in BOOLEAN :
        distribute_reward(sender, asset_infos, checked)
    /\ UNCHANGED <<submit_msg, converter, balance>>

\* a later block: env.block.time has advanced
BlockTime ==
    /\ now < MaxTime
    /\ \E t \in (now + 1)..MaxTime : now' = t
    /\ UNCHANGED <<orders, order_by_price, order_by_bidder, ticks, last_order_id,
                   orderbooks, executors, last_executor_id, config, refunded, resp,
                   last_distributed>>
    /\ UNCHANGED <<submit_msg, converter, balance>>

NextReward ==
    \/ SubmitOrderReward
    \/ ExecuteOrderBookPairReward
    \/ CreateOrderBookPairReward
    \/ DistributeReward
    \/ BlockTime

SpecReward == InitReward /\ [][NextReward]_vars

\* ------------------------------------- specification with the admin messages
\* The admin-only messages called by the admin and by another address, the
\* admin handed over between the two, and orders to refund on removal.
UpdateAdmin ==
    /\ \E sender \in AdminCallers, admin \in AdminCallers :
        execute_update_admin(sender, admin)
    /\ UNCHANGED <<submit_msg, converter, balance>>

UpdateConfig ==
    /\ \E sender \in AdminCallers, reward_address \in {None, Some("bob")},
       commission_rate \in {None, Some(500)} :
        execute_update_config(sender, reward_address, commission_rate)
    /\ UNCHANGED <<submit_msg, converter, balance>>

\* the pair listed either way round, each way with its own precision and
\* minimum quote amount
AdminCreateShapes ==
    { [infos |-> <<"orai", "usdt">>, spread |-> NoPrecision, min_quote_coin_amount |-> 0],
      [infos |-> <<"usdt", "orai">>, spread |-> 500, min_quote_coin_amount |-> 50] }

CreateOrderBookPairAdmin ==
    /\ \E sender \in AdminCallers, c \in AdminCreateShapes :
        execute_create_pair(sender, c.infos[1], c.infos[2], c.spread,
                            c.min_quote_coin_amount)
    /\ UNCHANGED <<submit_msg, converter, balance>>

NextAdmin ==
    \/ UpdateAdmin
    \/ UpdateConfig
    \/ CreateOrderBookPairAdmin
    \/ RemoveOrderBookPair
    \/ DistributeReward
    \/ SubmitOrderReward

SpecAdmin == Init /\ [][NextAdmin]_vars

\* ------------------------------------- specification with the SubmitOrder messages
\* Orders are submitted by the two message variants, the two assets listed
\* either way round, on a book registered either way round, with the right
\* and with a wrong amount sent along.
MessageAmounts ==
    { [orai |-> 100, usdt |-> 50], [orai |-> 30, usdt |-> 60], [orai |-> 100, usdt |-> 40] }

\* the two listings of a message that names the given amounts
MessageListings(a) ==
    { <<[info |-> "orai", amount |-> a.orai], [info |-> "usdt", amount |-> a.usdt]>>,
      <<[info |-> "usdt", amount |-> a.usdt], [info |-> "orai", amount |-> a.orai]>> }

MessageSent == {100, 60, 50, 30}

ExecuteSubmitOrder ==
    /\ last_order_id < MaxOrders
    /\ \E sender \in Bidders, direction \in {"Buy", "Sell"}, a \in MessageAmounts,
          denom \in NativeInfos, amount \in MessageSent :
          \E assets \in MessageListings(a) :
              /\ execute_submit_order(sender, direction, assets,
                                      [denom |-> denom, amount |-> amount])
              /\ submit_msg' = IF resp'.err = "ok"
                                THEN [variant |-> "native", sender |-> sender,
                                      direction |-> direction, assets |-> assets]
                                ELSE submit_msg
    /\ UNCHANGED <<converter, balance>>

ReceiveSubmitOrder ==
    /\ last_order_id < MaxOrders
    /\ \E sender \in Bidders, direction \in {"Buy", "Sell"}, a \in MessageAmounts,
          amount \in MessageSent :
          \E assets \in MessageListings(a) :
              /\ receive_cw20(sender, amount, direction, assets)
              /\ submit_msg' = IF resp'.err = "ok"
                                THEN [variant |-> "receive", sender |-> sender,
                                      direction |-> direction, assets |-> assets]
                                ELSE submit_msg
    /\ UNCHANGED <<converter, balance>>

CreateOrderBookPairMessage ==
    /\ \E c \in AdminCreateShapes :
        execute_create_pair(Admin, c.infos[1], c.infos[2], c.spread,
                            c.min_quote_coin_amount)
    /\ UNCHANGED <<submit_msg, converter, balance>>

RemoveOrderBookPairMessage ==
    /\ \E asset_infos \in CreatePairInfos : remove_pair(Admin, asset_infos)
    /\ UNCHANGED <<submit_msg, converter, balance>>

NextMessage ==
    \/ ExecuteSubmitOrder
    \/ ReceiveSubmitOrder
    \/ CreateOrderBookPairMessage
    \/ RemoveOrderBookPairMessage

SpecMessage == Init /\ [][NextMessage]_vars

\* ------------------------------------- specification with orders of price zero
\* Orders whose amounts are more than a thousand to one have the price 0.000
\* (Order::get_price keeps three decimals); the others are at 2.0 and 1.0.
PassShapes ==
    { [direction |-> "Buy",  sender |-> "alice", offer |-> 2,    ask |-> 4],
      [direction |-> "Buy",  sender |-> "alice", offer |-> 2000, ask |-> 1],
      [direction |-> "Sell", sender |-> "bob",   offer |-> 2,    ask |-> 1],
      [direction |-> "Sell", sender |-> "alice", offer |-> 4,    ask |-> 4],
      [direction |-> "Sell", sender |-> "bob",   offer |-> 1,    ask |-> 2000] }

SubmitOrderPasses ==
    /\ last_order_id < MaxOrders
    /\ \E shape \in PassShapes, infos \in AssetInfoPairs :
          submit_order(shape.sender, shape.direction,
                       <<[info |-> infos[1], amount |-> shape.offer],
                         [info |-> infos[2], amount |-> shape.ask]>>)
    /\ UNCHANGED <<submit_msg, converter, balance>>

NextPasses ==
    \/ SubmitOrderPasses
    \/ ExecuteOrderBookPair
    \/ CreateOrderBookPair

SpecPasses == Init /\ [][NextPasses]_vars

\* ------------------------------------- specification of the pool arithmetic
\* pool sizes and amounts, and commission rates 0, 0.003, 0.1 and 0.5
PoolAmounts == {0, 1, 2, 3, 8, 17, 40, 100, 200, 255}
PoolRates == {0, 3, 100, 500}

\* the inputs of a call are drawn before it: the two pools, the amount and
\* the commission rate; the contract storage is as after instantiate
InitPool ==
    /\ orders = EmptyFcn /\ order_by_price = EmptyFcn /\ order_by_bidder = EmptyFcn
    /\ ticks = EmptyFcn /\ last_order_id = 0 /\ orderbooks = EmptyFcn
    /\ executors = EmptyFcn /\ last_executor_id = 0 /\ refunded = EmptyFcn
    /\ last_distributed = EmptyFcn /\ now = 0 /\ submit_msg = NoMessage
    /\ converter = [owner |-> Admin, token_ratio |-> EmptyFcn]
    /\ balance = [info \in BankInfos |-> 0]
    /\ \E r \in CommissionRates, interval \in DistributionIntervals :
          config = [admin |-> Admin, commission_rate |-> r,
                    reward_address |-> RewardWallet,
                    distribution_interval |-> interval]
    /\ \E offer_pool \in PoolAmounts, ask_pool \in PoolAmounts,
          amount \in PoolAmounts, commission_rate \in PoolRates :
          resp = [op |-> "pool_input", messages |-> <<>>,
                  offer_pool |-> offer_pool, ask_pool |-> ask_pool,
                  amount |-> amount, commission_rate |-> commission_rate]

ComputeSwap ==
    /\ resp.op = "pool_input"
    /\ resp' = compute_swap(resp.offer_pool, resp.ask_pool, resp.amount,
                            resp.commission_rate)
    /\ UNCHANGED <<orders, order_by_price, order_by_bidder, ticks, last_order_id,
                   orderbooks, executors, last_executor_id, config, refunded,
                   last_distributed, now, submit_msg, converter, balance>>

ComputeOfferAmount ==
    /\ resp.op = "pool_input"
    /\ resp' = compute_offer_amount(resp.offer_pool, resp.ask_pool, resp.amount,
                                    resp.commission_rate)
    /\ UNCHANGED <<orders, order_by_price, order_by_bidder, ticks, last_order_id,
                   orderbooks, executors, last_executor_id, config, refunded,
                   last_distributed, now, submit_msg, converter, balance>>

NextPool ==
    \/ ComputeSwap
    \/ ComputeOfferAmount

SpecPool == InitPool /\ [][NextPool]_vars

\* ------------------------------------- specification of the converter
\* native coins and token contracts of the converter
ConverterTokens == {"usdt", "airi"}
ConverterDecimals == {6, 18, 30}
\* the assets pairs are registered from and to
ConverterFroms == {"orai", "usdt"}
ConverterTos == {"usdt", "atom", "airi"}
\* 5, 5 * 10^12, 15 * 10^11 and 10^38
ConverterAmounts == {Normal(5, 0), Normal(5, 12), Normal(15, 11), Normal(1, 38)}
\* the coins attached to a call
ConverterFunds ==
    {<<>>} \cup {<<[denom |-> d, amount |-> a]>> : d \in NativeInfos, a \in ConverterAmounts}
           \cup {<<[denom |-> "atom", amount |-> Normal(5, 0)],
                   [denom |-> "orai", amount |-> Normal(5, 0)]>>}

UpdatePair ==
    /\ \E sender \in AdminCallers, fi \in ConverterFroms, ti \in ConverterTos,
          fd \in ConverterDecimals, td \in ConverterDecimals :
          update_pair(sender, [info |-> fi, decimals |-> fd],
                      [info |-> ti, decimals |-> td])

UnregisterPair ==
    /\ \E sender \in AdminCallers, fi \in ConverterFroms, fd \in ConverterDecimals :
          unregister_pair(sender, [info |-> fi, decimals |-> fd])

Convert ==
    /\ \E funds \in ConverterFunds : convert("alice", funds)

ConvertReverse ==
    /\ \E funds \in ConverterFunds, from_asset \in ConverterFroms \cup {"atom"} :
          convert_reverse("alice", funds, from_asset)

ReceiveConvert ==
    /\ \E token \in ConverterTokens, amount \in ConverterAmounts :
          converter_receive_cw20(token, "alice", amount, [variant |-> "Convert"])

ReceiveConvertReverse ==
    /\ \E token \in ConverterTokens, amount \in ConverterAmounts,
          from \in ConverterFroms \cup {"atom"} :
          converter_receive_cw20(token, "alice", amount,
                                 [variant |-> "ConvertReverse", from |-> from])

NextConverter ==
    \/ UpdatePair
    \/ UnregisterPair
    \/ Convert
    \/ ConvertReverse
    \/ ReceiveConvert
    \/ ReceiveConvertReverse

InitConverter == Init /\ config.commission_rate = 1

SpecConverter == InitConverter /\ [][NextConverter]_vars

\* ---------------------------------------------------------------- properties
PassDone == resp.op = "execute_order_book_pair" /\ resp.err = "ok"

Fills == IF PassDone THEN resp.fills ELSE <<>>

RealFills == {n \in 1..Len(Fills) : Fills[n].kind = "fill"}

StoredWithinAmounts ==
    \A k \in DOMAIN orders :
        /\ orders[k].filled_offer_amount <= orders[k].offer_amount
        /\ orders[k].filled_ask_amount <= orders[k].ask_amount

FillsWithinRemainder ==
    \A n \in RealFills :
        /\ Fills[n].b_add_offer <= Fills[n].b_left_offer
        /\ Fills[n].b_add_ask <= Fills[n].b_left_ask
        /\ Fills[n].s_add_offer <= Fills[n].s_left_offer
        /\ Fills[n].s_add_ask <= Fills[n].s_left_ask

\* C1: every stored order has filled_offer_amount <= offer_amount and
\* filled_ask_amount <= ask_amount, and no fill of a matching pass adds more
\* to an order's filled amounts than the order's unfilled remainder.
C1_FilledWithinAmounts == StoredWithinAmounts /\ FillsWithinRemainder

RECURSIVE SumOver(_, _)
SumOver(f, D) ==
    IF D = {} THEN 0
    ELSE LET x == CHOOSE y \in D : TRUE IN f[x] + SumOver(f, D \ {x})

\* the amount the messages of the last call transfer in the given asset
Transferred(info) ==
    SumOver([n \in 1..Len(resp.messages) |->
                IF resp.messages[n].info = info THEN resp.messages[n].amount ELSE 0],
            1..Len(resp.messages))

\* the commission the pass credited to the executor, per listed asset
Commission(n) ==
    SumOver([k \in 1..Len(Fills) |->
                IF n = 1 THEN Fills[k].reward0 ELSE Fills[k].reward1],
            1..Len(Fills))

\* the decrease of the matched orders' remaining offer capacity, per listed
\* asset: sell orders offer asset_infos[1], buy orders offer asset_infos[2];
\* an order closed with its remainder credited gives up that remainder
CapacityDecrease(n) ==
    SumOver([k \in 1..Len(Fills) |->
                IF n = 1
                THEN (IF Fills[k].kind = "close_sell" THEN Fills[k].s_left_offer
                      ELSE Fills[k].s_add_offer)
                ELSE (IF Fills[k].kind = "close_buy" THEN Fills[k].b_left_offer
                      ELSE Fills[k].b_add_offer)],
            1..Len(Fills))

Abs(x) == IF x < 0 THEN -x ELSE x

\* C2: across one matching pass and for each of the two assets, the amount
\* transferred to counterparties plus the commission credited to the executor
\* equals the decrease of the matched orders' remaining offer capacity in that
\* asset, within 1 unit per fill.
C2_Conservation ==
    PassDone =>
        \A n \in 1..2 :
            Abs(Transferred(resp.asset_infos[n]) + Commission(n) - CapacityDecrease(n))
                <= Len(Fills)

\* C3: a matching pass on a pair whose book has no cross succeeds with an
\* empty message list.
C3_NoCrossSucceeds ==
    (resp.op = "execute_order_book_pair" /\ resp.err \in {"ok", "panic"}
     /\ ~resp.cross)
        => (resp.err = "ok" /\ resp.messages = <<>>)

\* C4: an order receives a fill only if every order of the same direction at
\* the matched tick with a lower order_id has been fully filled.
C4_FifoWithinTick ==
    \A n \in RealFills : Fills[n].b_prior_done /\ Fills[n].s_prior_done

\* C5: when the matched buy and sell prices differ, each pairing executes at
\* the price of the order with the lower order_id; when they are equal, that
\* price is used for every fill.
C5_EarlierOrderSetsPrice ==
    \A n \in RealFills :
        IF resp.buy_price # resp.sell_price
        THEN Fills[n].price = (IF Fills[n].buy_id < Fills[n].sell_id
                               THEN Fills[n].buy_price ELSE Fills[n].sell_price)
        ELSE Fills[n].price = resp.buy_price

\* the ids present under the primary key, in the price index, in the bidder index
PrimaryIds(pk) == {k[2] : k \in {x \in DOMAIN orders : x[1] = pk}}

PriceIndexIds(pk) == {k[3] : k \in {x \in DOMAIN order_by_price : x[1] = pk}}

BidderIndexIds(pk) == {k[3] : k \in {x \in DOMAIN order_by_bidder : x[1] = pk}}

PairKeys == {pair_key(p) : p \in AssetInfoPairs}

Indexed(pk, id) ==
    id \in PrimaryIds(pk) \cup PriceIndexIds(pk) \cup BidderIndexIds(pk)

TickOf(k) == <<k[1], orders[k].direction, get_price(orders[k])>>

RestingAt(tk) == {k \in DOMAIN orders : TickOf(k) = tk}

IndexesAgree ==
    /\ \A k \in DOMAIN orders :
          /\ orders[k].order_id = k[2]
          /\ <<k[1], get_price(orders[k]), k[2]>> \in DOMAIN order_by_price
          /\ order_by_price[<<k[1], get_price(orders[k]), k[2]>>] = orders[k].direction
          /\ <<k[1], orders[k].bidder_addr, k[2]>> \in DOMAIN order_by_bidder
    /\ \A x \in DOMAIN order_by_price :
          /\ <<x[1], x[3]>> \in DOMAIN orders
          /\ get_price(orders[<<x[1], x[3]>>]) = x[2]
    /\ \A x \in DOMAIN order_by_bidder :
          /\ <<x[1], x[3]>> \in DOMAIN orders
          /\ orders[<<x[1], x[3]>>].bidder_addr = x[2]

TickCountsAgree ==
    /\ \A tk \in DOMAIN ticks :
          ticks[tk] > 0 /\ ticks[tk] = Cardinality(RestingAt(tk))
    /\ \A k \in DOMAIN orders : TickOf(k) \in DOMAIN ticks

\* C6: the primary, price and bidder indexes hold the same orders, each tick
\* counter equals the number of resting orders at its (pair, direction,
\* price), and no tick with zero orders exists.
C6_IndexesConsistent == IndexesAgree /\ TickCountsAgree

\* a pass has stored a partly filled order again, in a tick of two orders
C6_Witness ==
    /\ PassDone
    /\ \E k \in DOMAIN orders :
          orders[k].filled_offer_amount > 0 /\ ticks[TickOf(k)] = 2

\* C7: offer_amount, ask_amount, direction, bidder and order_id of a stored
\* order never change, so its price and the tick it is indexed under stay
\* the same while its filled amounts grow.
C7_OrderTermsImmutable ==
    [][\A k \in DOMAIN orders \cap DOMAIN orders' :
          /\ orders'[k].offer_amount = orders[k].offer_amount
          /\ orders'[k].ask_amount = orders[k].ask_amount
          /\ orders'[k].direction = orders[k].direction
          /\ orders'[k].bidder_addr = orders[k].bidder_addr
          /\ orders'[k].order_id = orders[k].order_id
          /\ get_price(orders'[k]) = get_price(orders[k])
          /\ <<k[1], get_price(orders[k]), k[2]>> \in DOMAIN order_by_price'
          /\ <<k[1], orders[k].direction, get_price(orders[k])>> \in DOMAIN ticks']_vars

\* an order stays stored with both filled amounts grown by a pass
C7_Witness ==
    /\ PassDone
    /\ \E k \in DOMAIN orders :
          orders[k].filled_offer_amount > 0 /\ orders[k].filled_ask_amount > 0

\* the orders the last call made terminal
MadeTerminal ==
    IF PassDone THEN resp.closed
    ELSE IF resp.op = "cancel_order" /\ resp.err = "ok" THEN {resp.order.order_id}
    ELSE IF resp.op = "remove_order_book_pair" /\ resp.err = "ok"
    THEN {resp.removed[n].order_id : n \in 1..Len(resp.removed)}
    ELSE {}

NoTerminalIndexed ==
    /\ \A k \in DOMAIN orders : orders[k].status \notin {"Fulfilled", "Cancel"}
    /\ \A pk \in PairKeys, id \in MadeTerminal : ~Indexed(pk, id)
    /\ PassDone => resp.restores = 0

\* C8: no Fulfilled or Cancel order is in the primary, price or bidder index
\* once the call that closed it has completed, and a removed order is never
\* stored again, neither later in the same pass nor by a later call.
C8_TerminalOrdersGone ==
    /\ []NoTerminalIndexed
    /\ [][\A pk \in PairKeys, id \in 1..last_order_id :
             ~Indexed(pk, id) => ~Indexed(pk, id)']_vars

\* a pass has closed an order while another order is still resting
C8_Witness == PassDone /\ resp.closed # {} /\ DOMAIN orders # {}

\* C9: after a matching pass no stored order is in Filling status; every
\* order the pass touched is Fulfilled and removed, or stored Open; and
\* cancel_order is never rejected with OrderIsFilling.
C9_NoOrderLeftFilling ==
    /\ \A k \in DOMAIN orders : orders[k].status # "Filling"
    /\ \A n \in 1..Len(Fills) :
          \A id \in {Fills[n].buy_id, Fills[n].sell_id} :
              IF id \in resp.closed
              THEN \A pk \in PairKeys : ~Indexed(pk, id)
              ELSE \E pk \in PairKeys :
                      /\ <<pk, id>> \in DOMAIN orders
                      /\ orders[<<pk, id>>].status = "Open"
    /\ resp.err # "OrderIsFilling"

\* a pass has left a partly filled order stored Open
C9_Witness ==
    /\ PassDone
    /\ \E n \in RealFills, pk \in PairKeys :
          /\ <<pk, Fills[n].sell_id>> \in DOMAIN orders
          /\ orders[<<pk, Fills[n].sell_id>>].status = "Open"
          /\ orders[<<pk, Fills[n].sell_id>>].filled_offer_amount > 0

CancelDone == resp.op = "cancel_order" /\ resp.err = "ok"

\* C10: a successful cancel_order is called by the bidder, emits exactly one
\* transfer of offer_amount - filled_offer_amount to the bidder (none when
\* that is zero), removes the order from all indexes, and no order is
\* refunded more than once; a failed cancel_order emits no transfer.
C10_CancelRefundsOnce ==
    /\ CancelDone =>
          LET o == resp.order
              left == o.offer_amount - o.filled_offer_amount
          IN /\ resp.sender = o.bidder_addr
             /\ IF left > 0
                THEN /\ Len(resp.messages) = 1
                     /\ resp.messages[1].to = o.bidder_addr
                     /\ resp.messages[1].amount = left
                ELSE resp.messages = <<>>
             /\ \A pk \in PairKeys : ~Indexed(pk, o.order_id)
    /\ (resp.op = "cancel_order" /\ resp.err # "ok") => resp.messages = <<>>
    /\ \A id \in DOMAIN refunded : refunded[id] <= 1

\* a partly filled order has been cancelled and its remainder refunded
C10_Witness ==
    /\ CancelDone
    /\ resp.order.filled_offer_amount > 0
    /\ resp.messages # <<>>

StorageUnchanged ==
    UNCHANGED <<orders, order_by_price, order_by_bidder, ticks, last_order_id,
                orderbooks, executors, last_executor_id, config>>

\* C11: cancel_order on an order that a matching pass has fully filled
\* fails with OrderFulfilled, emits no transfer and changes no state.  (An
\* order in Filling status is never stored between calls, see C9.)
C11_FulfilledCancelRejected ==
    [][(PassDone /\ resp'.op = "cancel_order" /\ resp'.order_id \in resp.closed)
          => (/\ resp'.err = "OrderFulfilled"
              /\ resp'.messages = <<>>
              /\ StorageUnchanged)]_vars

\* C12: cancel_order called by an address other than the bidder of a stored
\* order fails with Unauthorized, emits no transfer and leaves the order
\* unchanged and in the primary, price and bidder indexes.
C12_OnlyBidderCancels ==
    [][\A k \in DOMAIN orders :
          (/\ resp'.op = "cancel_order"
           /\ k = <<resp'.pair, resp'.order_id>>
           /\ resp'.sender # orders[k].bidder_addr)
          => (/\ resp'.err = "Unauthorized"
              /\ resp'.messages = <<>>
              /\ StorageUnchanged
              /\ k \in DOMAIN orders' /\ orders'[k] = orders[k]
              /\ <<k[1], get_price(orders[k]), k[2]>> \in DOMAIN order_by_price'
              /\ <<k[1], orders[k].bidder_addr, k[2]>> \in DOMAIN order_by_bidder'
              /\ refunded' = refunded)]_vars

\* a cancel by another address was rejected while the order rests partly filled
C12_Witness ==
    /\ resp.op = "cancel_order" /\ resp.err = "Unauthorized"
    /\ <<resp.pair, resp.order_id>> \in DOMAIN orders
    /\ orders[<<resp.pair, resp.order_id>>].bidder_addr # resp.sender
    /\ orders[<<resp.pair, resp.order_id>>].filled_offer_amount > 0

SubmitCalled == resp.op = "submit_order"

AcceptedAmountsPositive ==
    \A k \in DOMAIN orders :
        orders[k].offer_amount > 0 /\ orders[k].ask_amount > 0

SubmitRejections ==
    SubmitCalled =>
        IF resp.offer_amount = 0 \/ resp.ask_amount = 0
        THEN resp.err = "AssetMustNotBeZero"
        ELSE (resp.pair \notin DOMAIN orderbooks) <=> (resp.err = "OrderBookNotFound")

SubmitReachedMinimum ==
    /\ SubmitCalled
    /\ resp.offer_amount # 0 /\ resp.ask_amount # 0
    /\ resp.pair \in DOMAIN orderbooks

\* the amounts of the pair's quote and base coin in the last submitted order
SubmittedQuoteAmount ==
    IF resp.direction = "Buy" THEN resp.offer_amount ELSE resp.ask_amount

SubmittedBaseAmount ==
    IF resp.direction = "Buy" THEN resp.ask_amount ELSE resp.offer_amount

MinQuoteRule ==
    SubmitReachedMinimum =>
        /\ resp.err \in {"ok", "TooSmallQuoteAsset"}
        /\ (resp.err = "TooSmallQuoteAsset")
              <=> (SubmittedQuoteAmount < orderbooks[resp.pair].min_quote_coin_amount)

\* for either listing of the two coins in a SubmitOrder message, the asset
\* the message handler tests is the pair's quote coin and is the asset
\* submit_order selects by the direction
HandlerSelectsSameAsset ==
    SubmitReachedMinimum =>
        LET ob == orderbooks[resp.pair]
            base == [info |-> ob.base_coin_info, amount |-> SubmittedBaseAmount]
            quote == [info |-> ob.quote_coin_info, amount |-> SubmittedQuoteAmount]
        IN \A assets \in {<<base, quote>>, <<quote, base>>} :
              /\ message_quote_asset(ob, assets) = quote
              /\ quote_asset(resp.direction,
                             message_order_assets(ob, resp.direction, assets)) = quote

\* C14: submit_order is rejected with TooSmallQuoteAsset exactly when the
\* amount of the pair's quote asset in the order, the asset selected by the
\* direction, is strictly below the pair's minimum; an amount equal to the
\* minimum is accepted; a rejected submission stores no order.
C14_MinQuoteAmount ==
    /\ [](MinQuoteRule /\ HandlerSelectsSameAsset)
    /\ [][(resp'.op = "submit_order" /\ resp'.err = "TooSmallQuoteAsset")
              => (StorageUnchanged /\ refunded' = refunded)]_vars

\* an order whose quote amount equals the minimum was accepted
C14_Witness ==
    /\ SubmitReachedMinimum /\ resp.err = "ok"
    /\ SubmittedQuoteAmount = orderbooks[resp.pair].min_quote_coin_amount
    /\ orderbooks[resp.pair].min_quote_coin_amount > 0

\* the order books created with a minimum quote amount of 50
MinFifty == {pk \in DOMAIN orderbooks : orderbooks[pk].min_quote_coin_amount = 50}

\* C15: on a pair with min_quote_amount = 50, a Buy order offering 100 units
\* for 100 units is accepted, and the same Buy order with ask amount 10
\* (offer still 100) is rejected with TooSmallQuoteAsset.
C15_ScenarioAsStated ==
    (SubmitCalled /\ resp.pair \in MinFifty /\ resp.direction = "Buy"
     /\ resp.offer_amount = 100)
        => /\ resp.ask_amount = 100 => resp.err = "ok"
           /\ resp.ask_amount = 10 => resp.err = "TooSmallQuoteAsset"

\* C15 (amended): on a pair with min_quote_amount = 50, a Buy order offering
\* 100 units for 100 units is accepted, and the same Buy order with offer
\* amount 10 (ask still 100) is rejected with TooSmallQuoteAsset.
C15_ScenarioOfferTen ==
    (SubmitCalled /\ resp.pair \in MinFifty /\ resp.direction = "Buy"
     /\ resp.ask_amount = 100)
        => /\ resp.offer_amount = 100 => resp.err = "ok"
           /\ resp.offer_amount = 10 => resp.err = "TooSmallQuoteAsset"

\* the Buy order of 10 for 100 was rejected while the one of 100 for 100 rests
C15_Witness ==
    /\ SubmitCalled /\ resp.pair \in MinFifty /\ resp.direction = "Buy"
    /\ resp.offer_amount = 10 /\ resp.ask_amount = 100
    /\ resp.err = "TooSmallQuoteAsset"
    /\ \E k \in DOMAIN orders :
          /\ k[1] = resp.pair /\ orders[k].direction = "Buy"
          /\ orders[k].offer_amount = 100 /\ orders[k].ask_amount = 100

\* every id in the storage, and every id closed so far, was issued by the counter
IssuedByCounter ==
    /\ \A k \in DOMAIN orders :
          k[2] \in 1..last_order_id /\ orders[k].order_id = k[2]
    /\ \A id \in DOMAIN refunded \cup MadeTerminal : id \in 1..last_order_id
    /\ \A j, k \in DOMAIN orders : j[2] = k[2] => j = k

\* what a step does to the counter and, when it is an accepted submission,
\* to the stored orders
CounterStep ==
    /\ last_order_id' >= last_order_id
    /\ (resp'.op = "submit_order" /\ resp'.err # "ok")
          => last_order_id' = last_order_id
    /\ (resp'.op = "submit_order" /\ resp'.err = "ok")
          => LET k == <<resp'.pair, resp'.order_id>>
             IN /\ last_order_id' = last_order_id + 1
                /\ resp'.order_id = last_order_id'
                /\ \A j \in DOMAIN orders : j[2] < resp'.order_id
                /\ DOMAIN orders' = DOMAIN orders \cup {k}
                /\ k \notin DOMAIN orders
                /\ \A j \in DOMAIN orders : orders'[j] = orders[j]
                /\ orders'[k].order_id = resp'.order_id
                /\ orders'[k].status = "Open"
                /\ orders'[k].filled_offer_amount = 0
                /\ orders'[k].filled_ask_amount = 0
                /\ orders'[k].offer_amount = resp'.offer_amount
                /\ orders'[k].ask_amount = resp'.ask_amount

\* C16: order ids come from one contract-wide counter: a successful
\* submit_order gets an id greater than every id issued before, on whichever
\* pair; no id is used again after its order was cancelled, fulfilled or
\* removed with its pair; a rejected submission leaves the counter alone; and
\* the new order is stored Open with both filled amounts zero.
C16_OrderIdsFromOneCounter == []IssuedByCounter /\ [][CounterStep]_vars

\* order 3 was accepted on one pair after an earlier order was closed with a
\* refund and while an order of the other pair rests
C16_Witness ==
    /\ SubmitCalled /\ resp.err = "ok" /\ resp.order_id = 3
    /\ DOMAIN refunded # {}
    /\ \E k \in DOMAIN orders : k[1] # resp.pair

\* the prices of the resting orders of one direction of a pair
RestingPrices(pk, direction) ==
    {get_price(orders[k]) : k \in {x \in DOMAIN orders :
                                      x[1] = pk /\ orders[x].direction = direction}}

NoPrecisionBooks == {pk \in DOMAIN orderbooks : orderbooks[pk].precision = NoPrecision}

\* C17: for a pair with no precision, find_match_price returns a match if and
\* only if a Buy order and a Sell order rest and the highest resting Buy
\* price is at least the lowest resting Sell price, and the match is exactly
\* (highest resting Buy price, lowest resting Sell price); the matching pass
\* works on that pair of prices.
C17_MatchPriceNoPrecision ==
    /\ \A pk \in NoPrecisionBooks :
          LET m == find_match_price(Storage, pk, orderbooks[pk])
              buys == RestingPrices(pk, "Buy")
              sells == RestingPrices(pk, "Sell")
          IN IF buys # {} /\ sells # {} /\ SetMax(buys) >= SetMin(sells)
             THEN m = <<TRUE, SetMax(buys), SetMin(sells)>>
             ELSE ~m[1]
    /\ PassDone => resp.cross /\ resp.buy_price >= resp.sell_price

\* two Buy prices and two Sell prices rest, and the best of each cross
C17_Witness ==
    \E pk \in NoPrecisionBooks :
        /\ Cardinality(RestingPrices(pk, "Sell")) = 2
        /\ find_match_price(Storage, pk, orderbooks[pk])[1]
        /\ find_match_price(Storage, pk, orderbooks[pk])[2]
              > find_match_price(Storage, pk, orderbooks[pk])[3]

PrecisionBooks == DOMAIN orderbooks \ NoPrecisionBooks

\* the Sell prices resting within the band below the Buy price hb
InBand(pk, hb) ==
    {s \in RestingPrices(pk, "Sell") :
        s <= hb
        /\ hb * DecimalFractional <= s * (DecimalFractional + orderbooks[pk].precision)}

SlotCredit(fills, n) ==
    SumOver([k \in 1..Len(fills) |->
                IF n = 1 THEN fills[k].reward0 ELSE fills[k].reward1],
            1..Len(fills))

\* a successful pass stores the record of its executor (pair, caller) with
\* each slot grown by what the pass credited, and no other record changes
RewardsBooked ==
    (resp'.op = "execute_order_book_pair" /\ resp'.err = "ok")
      => LET key == <<pair_key(resp'.asset_infos), resp'.sender>>
             before(n) == IF key \in DOMAIN executors
                          THEN executors[key].reward_assets[n].amount ELSE 0
         IN /\ DOMAIN executors' = DOMAIN executors \cup {key}
            /\ \A k \in DOMAIN executors \ {key} : executors'[k] = executors[k]
            /\ executors'[key].address = resp'.sender
            /\ \A n \in 1..2 :
                  /\ executors'[key].reward_assets[n].amount
                        = before(n) + SlotCredit(resp'.fills, n)
                  /\ SlotCredit(resp'.fills, n) > 0
                        => executors'[key].reward_assets[n].info = resp'.asset_infos[n]

Closures == {n \in 1..Len(Fills) : Fills[n].kind \in {"close_buy", "close_sell"}}

\* the order a closure closes, its counterpart, and their offer and ask
\* remainders before the pairing
ClosedId(n) == IF Fills[n].kind = "close_buy" THEN Fills[n].buy_id ELSE Fills[n].sell_id

CounterpartId(n) == IF Fills[n].kind = "close_buy" THEN Fills[n].sell_id ELSE Fills[n].buy_id

LeftOffer(n, id) ==
    IF id = Fills[n].buy_id THEN Fills[n].b_left_offer ELSE Fills[n].s_left_offer

LeftAsk(n, id) ==
    IF id = Fills[n].buy_id THEN Fills[n].b_left_ask ELSE Fills[n].s_left_ask

\* the pairings after pairing n that involve order id
LaterPairings(n, id) ==
    {m \in (n + 1)..Len(Fills) : id \in {Fills[m].buy_id, Fills[m].sell_id}}

\* order id has the remainders it had before pairing n: in its next pairing
\* of the pass, or else in the storage, where it rests Open
RemaindersKept(n, id) ==
    IF LaterPairings(n, id) # {}
    THEN LET m == SetMin(LaterPairings(n, id))
         IN LeftOffer(m, id) = LeftOffer(n, id) /\ LeftAsk(m, id) = LeftAsk(n, id)
    ELSE \E k \in DOMAIN orders :
            /\ k[2] = id
            /\ orders[k].status = "Open"
            /\ orders[k].offer_amount - orders[k].filled_offer_amount = LeftOffer(n, id)
            /\ orders[k].ask_amount - orders[k].filled_ask_amount = LeftAsk(n, id)

ClosuresSettled ==
    /\ \A n \in Closures :
          /\ LeftOffer(n, ClosedId(n)) > 0
          /\ ClosedId(n) \in resp.closed
          /\ \A k \in DOMAIN orders : k[2] # ClosedId(n)
          /\ \A k \in DOMAIN order_by_price : k[3] # ClosedId(n)
          /\ \A k \in DOMAIN order_by_bidder : k[3] # ClosedId(n)
          /\ LaterPairings(n, ClosedId(n)) = {}
          /\ IF Fills[n].kind = "close_buy"
             THEN Fills[n].reward1 = Fills[n].b_left_offer /\ Fills[n].reward0 = 0
             ELSE Fills[n].reward0 = Fills[n].s_left_offer /\ Fills[n].reward1 = 0
          /\ RemaindersKept(n, CounterpartId(n))
    \* an order whose ask at the execution price rounds to zero is never filled
    /\ \A n \in RealFills :
          /\ DivDec(Fills[n].b_left_offer, Fills[n].price) > 0
          /\ MulDec(Fills[n].s_left_offer, Fills[n].price) > 0
    \* a transfer is emitted for fills only: two per fill
    /\ PassDone => Len(resp.messages) = 2 * Cardinality(RealFills)

\* C19: in a matching pass, an order whose remaining ask at the execution
\* price rounds to zero while it has an offer remainder is closed as
\* Fulfilled and removed from all indexes, its whole offer remainder is
\* credited exactly once (to the executor's reward balance), and the
\* counterpart of that pairing goes back to Open with its filled amounts
\* unchanged.
C19_DegenerateClosure == []ClosuresSettled /\ [][RewardsBooked]_vars

\* a pass closed an order on a zero ask while its counterpart rests Open
C19_Witness ==
    /\ PassDone
    /\ \E n \in Closures :
          /\ LaterPairings(n, CounterpartId(n)) = {}
          /\ \E k \in DOMAIN orders : k[2] = CounterpartId(n)

\* the position of fill n among the fills of the pass
FillRank(n) == Cardinality({m \in RealFills : m <= n})

\* the floor of amount * commission rate, and whether it rounds
Floored(amount) == (amount * config.commission_rate) \div DecimalFractional

FillsPaidLessCommission ==
    \A n \in RealFills :
        LET f == Fills[n]
            to_seller == resp.messages[2 * FillRank(n) - 1]
            to_buyer == resp.messages[2 * FillRank(n)]
        IN /\ f.s_add_ask > 0 /\ f.b_add_ask > 0
           /\ f.reward1 = Floored(f.s_add_ask)
           /\ f.reward0 = Floored(f.b_add_ask)
           /\ to_seller = [to |-> f.seller, info |-> resp.asset_infos[2],
                           amount |-> f.s_add_ask - Floored(f.s_add_ask)]
           /\ to_buyer = [to |-> f.buyer, info |-> resp.asset_infos[1],
                          amount |-> f.b_add_ask - Floored(f.b_add_ask)]

\* C20: for every non-zero fill of a pass with commission rate r, each party
\* is sent its fill amount minus floor(amount * r), and floor(amount * r) is
\* added in the same asset to the reward balance of the executor (pair,
\* caller of the pass); no other executor record changes, and the record is
\* stored at the end of the pass.
C20_CommissionToExecutor ==
    /\ [](PassDone => (FillsPaidLessCommission
                       /\ Len(resp.messages) = 2 * Cardinality(RealFills)))
    /\ [][RewardsBooked]_vars

\* a pass took a rounded commission while another executor has a balance
C20_Witness ==
    /\ PassDone
    /\ \E n \in RealFills :
          /\ Fills[n].reward1 > 0
          /\ (Fills[n].s_add_ask * config.commission_rate) % DecimalFractional # 0
    /\ \E k \in DOMAIN executors :
          /\ k # <<pair_key(resp.asset_infos), resp.sender>>
          /\ executors[k].reward_assets[1].amount > 0

DistributeDone == resp.op = "distribute_reward" /\ resp.err = "ok"

\* the pairs the last distribute_reward processed, by their place in its list
Processed == IF DistributeDone THEN resp.processed ELSE <<>>

PaidEntries == {n \in 1..Len(Processed) : Processed[n].paid}

\* the balance an executor record holds in an asset
OwedIn(e, info) ==
    SumOver([n \in 1..2 |-> IF e.reward_assets[n].info = info
                            THEN e.reward_assets[n].amount ELSE 0], 1..2)

\* the amount of an asset that transfers send to an address
SentIn(transfers, to, info) ==
    SumOver([n \in 1..Len(transfers) |->
                IF transfers[n].to = to /\ transfers[n].info = info
                THEN transfers[n].amount ELSE 0],
            1..Len(transfers))

RewardInfos == {"orai", "usdt", "atom"}

\* the transfers the call emitted for the k-th executor of entry n
EmittedTransfers(n, k) ==
    SubSeq(resp.messages, Processed[n].first + 2 * (k - 1),
           Processed[n].first + 2 * (k - 1) + 1)

\* after a distribution, every executor of a pair it paid has been sent its
\* two balances, each in its asset, and holds zero balances
DistributionPaysBalances ==
    \A n \in PaidEntries :
        \A k \in 1..Len(Processed[n].before) :
            LET e == Processed[n].before[k]
                key == <<Processed[n].pair, e.address>>
            IN /\ \A info \in RewardInfos :
                    SentIn(EmittedTransfers(n, k), e.address, info) = OwedIn(e, info)
               /\ executors[key].reward_assets[1].amount = 0
               /\ executors[key].reward_assets[2].amount = 0

RewardAmount(ex, key, n) ==
    IF key \in DOMAIN ex THEN ex[key].reward_assets[n].amount ELSE 0

\* a balance grows only in a successful matching pass of its executor on its
\* pair, by what the pass credited, and shrinks only in a distribution that
\* pays the pair, to zero and with the whole former balance sent
RewardBalanceSteps ==
    (now' = now) =>
    /\ DOMAIN executors \subseteq DOMAIN executors'
    /\ \A key \in DOMAIN executors' : \A n \in 1..2 :
        LET old == RewardAmount(executors, key, n)
            new == RewardAmount(executors', key, n)
        IN /\ new > old =>
                /\ resp'.op = "execute_order_book_pair" /\ resp'.err = "ok"
                /\ key = <<pair_key(resp'.asset_infos), resp'.sender>>
                /\ new - old = SlotCredit(resp'.fills, n)
           /\ new < old =>
                /\ resp'.op = "distribute_reward" /\ resp'.err = "ok"
                /\ new = 0
                /\ \E m \in 1..Len(resp'.processed) :
                      /\ resp'.processed[m].paid
                      /\ resp'.processed[m].pair = key[1]
                      /\ \E k \in 1..Len(resp'.processed[m].before) :
                            /\ resp'.processed[m].before[k] = executors[key]
                            /\ resp'.messages[resp'.processed[m].first + 2 * (k - 1)
                                              + (n - 1)].amount = old

\* C21: a distribution sends every executor of a pair it pays exactly its
\* accrued balance in each of the two assets and leaves both balances zero;
\* balances grow only by matching passes and are zeroed only by distribution,
\* so nothing is paid twice and nothing is lost.
C21_RewardsPaidOnce == []DistributionPaysBalances /\ [][RewardBalanceSteps]_vars

\* the pair of a listing is due: never distributed before, or distributed at
\* least distribution_interval seconds ago
Due(pk) ==
    \/ pk \notin DOMAIN last_distributed
    \/ now - last_distributed[pk] >= config.distribution_interval

\* the transfers the call emitted for entry n of its list
EntryTransfers(r, n) ==
    SubSeq(r.messages, r.processed[n].first,
           IF n < Len(r.processed) THEN r.processed[n + 1].first - 1
           ELSE Len(r.messages))

PairRecords(ex, pk) == Restrict(ex, {k \in DOMAIN ex : k[1] = pk})

\* a call of distribute_reward by the admin goes through its whole list (of
\* distinct pairs): a due pair is paid and stamped with the block time, any
\* other is skipped with no transfer, its records and timestamp unchanged
DistributionGated ==
    (now' = now /\ resp'.op = "distribute_reward" /\ resp'.sender = config.admin)
      => /\ resp'.err = "ok"
         /\ Len(resp'.processed) = Len(resp'.asset_infos)
         /\ \A n \in 1..Len(resp'.asset_infos) :
               LET pk == pair_key(resp'.asset_infos[n])
               IN /\ resp'.processed[n].pair = pk
                  /\ resp'.processed[n].paid = Due(pk)
                  /\ Due(pk) => /\ pk \in DOMAIN last_distributed'
                                /\ last_distributed'[pk] = now
                  /\ ~Due(pk) => /\ EntryTransfers(resp', n) = <<>>
                                 /\ last_distributed'[pk] = last_distributed[pk]
                                 /\ PairRecords(executors', pk) = PairRecords(executors, pk)

\* a pair's timestamp changes only to the block time of a distribution, and
\* not within distribution_interval seconds of the former timestamp
DistributionsApart ==
    /\ DOMAIN last_distributed \subseteq DOMAIN last_distributed'
    /\ \A pk \in DOMAIN last_distributed' :
          (pk \notin DOMAIN last_distributed \/ last_distributed'[pk] # last_distributed[pk])
            => /\ resp'.op = "distribute_reward" /\ resp'.err = "ok" /\ now' = now
               /\ last_distributed'[pk] = now
               /\ pk \in DOMAIN last_distributed
                    => now - last_distributed[pk] >= config.distribution_interval

DistributionStep == DistributionGated /\ DistributionsApart

\* C22: distribute_reward pays a pair only when distribution_interval seconds
\* have passed since the pair's last distribution, a pair never distributed
\* being due at any block time; a pair not due is skipped (no transfer, its
\* balances and timestamp unchanged) and the rest of the list is still
\* processed; two distributions of a pair are never less than the interval apart.
C22_DistributionInterval == [][DistributionStep]_vars

RemoveDone(r) == r.op = "remove_order_book_pair" /\ r.err = "ok"

\* the orders stored under a pair, by the primary key
PairOrders(pk) == {orders[k] : k \in {x \in DOMAIN orders : x[1] = pk}}

\* the refunds owed to the orders of a sequence: recipient and amount, one
\* for each order with an unfilled offer remainder
RECURSIVE OwedRefunds(_)
OwedRefunds(os) ==
    IF os = <<>> THEN <<>>
    ELSE (IF os[1].offer_amount - os[1].filled_offer_amount > 0
          THEN <<<<os[1].bidder_addr, os[1].offer_amount - os[1].filled_offer_amount>>>>
          ELSE <<>>) \o OwedRefunds(Tail(os))

Recipients(msgs) == [n \in 1..Len(msgs) |-> <<msgs[n].to, msgs[n].amount>>]

\* nothing of a pair is left under the primary key, in the two indexes and
\* in the ticks
NothingStored(pk, o, bp, bb, t) ==
    /\ \A k \in DOMAIN o : k[1] # pk
    /\ \A k \in DOMAIN bp : k[1] # pk
    /\ \A k \in DOMAIN bb : k[1] # pk
    /\ \A k \in DOMAIN t : k[1] # pk

\* a successful remove_order_book_pair deletes one book, takes every order
\* stored under its pair, refunds each remainder to its bidder and leaves
\* nothing of the pair in the storage
RemoveRefundsAll ==
    (now' = now /\ RemoveDone(resp')) =>
        \E pk \in DOMAIN orderbooks :
            /\ DOMAIN orderbooks' = DOMAIN orderbooks \ {pk}
            /\ {resp'.removed[n] : n \in 1..Len(resp'.removed)} = PairOrders(pk)
            /\ Len(resp'.removed) = Cardinality(PairOrders(pk))
            /\ \A n \in 1..Len(resp'.removed) :
                  resp'.removed[n].filled_offer_amount <= resp'.removed[n].offer_amount
            /\ Recipients(resp'.messages) = OwedRefunds(resp'.removed)
            /\ NothingStored(pk, orders', order_by_price', order_by_bidder', ticks')

\* no call succeeds on a pair that has no book, and a submission with
\* non-zero amounts fails with OrderBookNotFound
NoBookNoCall ==
    (now' = now) =>
        /\ (resp'.op = "submit_order" /\ resp'.pair \notin DOMAIN orderbooks)
              => /\ resp'.err # "ok"
                 /\ (resp'.offer_amount > 0 /\ resp'.ask_amount > 0)
                       => resp'.err = "OrderBookNotFound"
        /\ (resp'.op = "cancel_order" /\ resp'.pair \notin DOMAIN orderbooks)
              => resp'.err = "NotFound"
        /\ (resp'.op = "execute_order_book_pair" /\ resp'.err = "ok")
              => pair_key(resp'.asset_infos) \in DOMAIN orderbooks

\* a pair without a book has no order in any index
NoBookNoOrders ==
    \A pk \in PairKeys :
        pk \notin DOMAIN orderbooks
          => NothingStored(pk, orders, order_by_price, order_by_bidder, ticks)

RemoveStep == RemoveRefundsAll /\ NoBookNoCall

AdminOps == {"create_order_book_pair", "remove_order_book_pair", "distribute_reward",
             "update_admin", "update_config"}

\* everything the contract stores
StateUnchanged ==
    UNCHANGED <<orders, order_by_price, order_by_bidder, ticks, last_order_id,
                orderbooks, executors, last_executor_id, config, refunded,
                last_distributed>>

\* an admin-only message from any other address than the stored admin fails
\* with Unauthorized and changes nothing; from the stored admin it is not
\* refused as unauthorized
AdminOnly ==
    (now' = now /\ resp'.op \in AdminOps) =>
        IF resp'.sender # config.admin
        THEN resp'.err = "Unauthorized" /\ StateUnchanged
        ELSE resp'.err # "Unauthorized"

\* a successful update_admin stores the new admin and nothing else
AdminHandedOver ==
    (now' = now /\ resp'.op = "update_admin" /\ resp'.err = "ok") =>
        /\ config' = [config EXCEPT !.admin = resp'.admin]
        /\ UNCHANGED <<orders, order_by_price, order_by_bidder, ticks, last_order_id,
                       orderbooks, executors, last_executor_id, refunded,
                       last_distributed>>

\* the admin changes only by update_admin
AdminKept ==
    config'.admin # config.admin => (resp'.op = "update_admin" /\ resp'.err = "ok")

AdminStep == AdminOnly /\ AdminHandedOver /\ AdminKept

\* C24: create_order_book_pair, remove_order_book_pair, distribute_reward,
\* update_admin and update_config from any address other than the current
\* admin fail with Unauthorized and change no state; after a successful
\* update_admin the former admin is refused and the new admin accepted.
C24_AdminOnly == [][AdminStep]_vars

\* after the admin was handed over to bob, the former admin's removal of a
\* book with resting orders has been refused
C24_Witness ==
    /\ config.admin = "bob"
    /\ resp.op = "remove_order_book_pair"
    /\ resp.sender = Admin
    /\ resp.err = "Unauthorized"
    /\ DOMAIN orders # {}
    /\ DOMAIN orderbooks # {}

CreateCalled(r) == r.op = "create_order_book_pair"

\* every book is stored under the key of its own two assets, so two books
\* never share an unordered pair
OneBookPerPair ==
    \A pk \in DOMAIN orderbooks :
        pair_key(<<orderbooks[pk].base_coin_info, orderbooks[pk].quote_coin_info>>) = pk

\* create_order_book_pair for two assets that already have a book, listed
\* either way round, fails and leaves the book and the orders as they are;
\* for two assets without a book the admin's call stores the book as given
CreateOncePerPair ==
    (now' = now /\ CreateCalled(resp')) =>
        LET pk == pair_key(<<resp'.base_coin_info, resp'.quote_coin_info>>)
        IN IF pk \in DOMAIN orderbooks
           THEN /\ resp'.err = IF resp'.sender = config.admin
                               THEN "OrderBookAlreadyExists" ELSE "Unauthorized"
                /\ orderbooks' = orderbooks
                /\ StateUnchanged
           ELSE resp'.sender = config.admin =>
                  /\ resp'.err = "ok"
                  /\ DOMAIN orderbooks' = DOMAIN orderbooks \cup {pk}
                  /\ orderbooks'[pk].base_coin_info = resp'.base_coin_info
                  /\ orderbooks'[pk].quote_coin_info = resp'.quote_coin_info

\* C25: there is at most one order book per unordered asset pair:
\* create_order_book_pair fails with OrderBookAlreadyExists when a book exists
\* for the same two assets, given as (A,B) or as (B,A), and leaves the
\* existing book (orientation, precision, min_quote_amount) and its resting
\* orders unchanged.
C25_OneBookPerPair == []OneBookPerPair /\ [][CreateOncePerPair]_vars

\* the admin's create_order_book_pair for (B,A) has been refused while the
\* book of (A,B) holds resting orders
C25_Witness ==
    /\ CreateCalled(resp)
    /\ resp.err = "OrderBookAlreadyExists"
    /\ pair_key(<<resp.base_coin_info, resp.quote_coin_info>>) \in DOMAIN orderbooks
    /\ orderbooks[pair_key(<<resp.base_coin_info, resp.quote_coin_info>>)].base_coin_info
          = resp.quote_coin_info
    /\ DOMAIN orders # {}

\* the amount a message names for a coin
AmountOf(assets, info) ==
    IF assets[1].info = info THEN assets[1].amount ELSE assets[2].amount

\* the step has stored, under the id it issued, the order of the message
\* with the amounts taken by the roles of the coins in the pair: a Buy offers
\* the quote coin and asks the base coin, a Sell offers the base coin and
\* asks the quote coin
StoredByRole(sender, direction, assets) ==
    LET pk == pair_key(<<assets[1].info, assets[2].info>>)
        ob == orderbooks[pk]
        base == AmountOf(assets, ob.base_coin_info)
        quote == AmountOf(assets, ob.quote_coin_info)
    IN /\ <<pk, last_order_id'>> \in DOMAIN orders'
       /\ <<pk, last_order_id'>> \notin DOMAIN orders
       /\ orders'[<<pk, last_order_id'>>] =
             [order_id |-> last_order_id', direction |-> direction,
              bidder_addr |-> sender,
              offer_amount |-> IF direction = "Buy" THEN quote ELSE base,
              ask_amount |-> IF direction = "Buy" THEN base ELSE quote,
              filled_offer_amount |-> 0, filled_ask_amount |-> 0, status |-> "Open"]

\* a step that issues an order id is the delivery of submit_msg', in
\* whichever listing and by whichever entry point: the order it accepts is
\* stored by the roles of its coins
MessageStoredByRole ==
    last_order_id' = last_order_id + 1 =>
        /\ submit_msg'.variant \in {"native", "receive"}
        /\ resp'.op = "submit_order" /\ resp'.err = "ok"
        /\ StoredByRole(submit_msg'.sender, submit_msg'.direction, submit_msg'.assets)

\* C26: SubmitOrder, with native funds and by the receive hook, stores the
\* same order whichever way the message lists the two assets: a Buy order's
\* offer is the amount of the pair's registered quote asset and its ask the
\* amount of the base asset, a Sell order's offer is the base amount and its
\* ask the quote amount.
C26_ListingIndependent == [][MessageStoredByRole]_vars

\* a Buy order has been accepted on the book registered as (usdt, orai): it
\* offers the amount of orai, the quote coin, and asks the amount of usdt
C26_Witness ==
    /\ resp.op = "submit_order" /\ resp.err = "ok" /\ resp.direction = "Buy"
    /\ submit_msg.variant = "receive"
    /\ submit_msg.assets[1] = [info |-> "orai", amount |-> 100]
    /\ orderbooks[resp.pair].base_coin_info = "usdt"
    /\ orders[<<resp.pair, resp.order_id>>].offer_amount = 100
    /\ orders[<<resp.pair, resp.order_id>>].ask_amount = 50

\* the number of orders resting under a pair
RestingOrders(os, pk) == Cardinality({k \in DOMAIN os : k[1] = pk})

\* the unfilled offer amounts of the orders resting under a pair, in total
RemainingOffer(os, pk) ==
    SumOver([k \in {x \in DOMAIN os : x[1] = pk} |->
                os[k].offer_amount - os[k].filled_offer_amount],
            {x \in DOMAIN os : x[1] = pk})

\* the step is a matching pass on a book for which find_match_price reports
\* a cross
PassFindsCross ==
    /\ resp'.op = "execute_order_book_pair"
    /\ resp'.err \in {"ok", "panic"}
    /\ resp'.cross

\* a pass that finds a cross completes, and leaves fewer resting orders or a
\* smaller unfilled offer total on the pair, neither of them larger
PassProgress ==
    PassFindsCross =>
        /\ resp'.err = "ok"
        /\ LET pk == pair_key(resp'.asset_infos)
           IN /\ RestingOrders(orders', pk) <= RestingOrders(orders, pk)
              /\ RemainingOffer(orders', pk) <= RemainingOffer(orders, pk)
              /\ \/ RestingOrders(orders', pk) < RestingOrders(orders, pk)
                 \/ RemainingOffer(orders', pk) < RemainingOffer(orders, pk)

\* C27: with no submissions and cancellations in between, repeated matching
\* passes on a pair reach a book without a cross after finitely many passes:
\* every pass that finds a cross completes without aborting and strictly
\* reduces the number of resting orders or the total unfilled offer amount of
\* the pair.
C27_PassesTerminate == [][PassProgress]_vars

\* compute_swap was called with an offer pool that is not empty
SwapCalled == resp.op = "compute_swap" /\ resp.offer_pool > 0

\* the raw return is the ask pool less the truncated quotient, the commission
\* the floor of its share of the raw return, and the rest is returned
SwapFormula ==
    SwapCalled =>
        /\ resp.err = "ok"
        /\ resp.raw = resp.ask_pool
                        - (resp.offer_pool * resp.ask_pool)
                              \div (resp.offer_pool + resp.amount)
        /\ resp.returned[3] = (resp.raw * resp.commission_rate) \div DecimalFractional
        /\ resp.returned[1] + resp.returned[3] = resp.raw

\* the scenario: pools of 200 and 200, 100 offered at the rate 0.003
SwapScenario ==
    (/\ SwapCalled
     /\ resp.offer_pool = 200 /\ resp.ask_pool = 200
     /\ resp.amount = 100 /\ resp.commission_rate = 3)
        => (resp.err = "ok" /\ resp.returned[1] = 66)

\* C28: for a positive offer pool compute_swap computes the raw return
\* ask_pool - k / (offer_pool + offer_amount), k = offer_pool * ask_pool, under
\* truncation, the commission floor(raw * rate), and returns the raw return
\* less the commission; for pools of 200 and 200, an offer of 100 and the
\* rate 0.003 it returns 66.
C28_ComputeSwap == SwapFormula /\ SwapScenario

OfferCalled == resp.op = "compute_offer_amount"

\* the call fails with TooSmallOfferAmount or returns, and it fails exactly
\* when the spread or the commission it computed is zero
TooSmallExactly ==
    OfferCalled =>
        /\ resp.err \in {"TooSmallOfferAmount", "ok"}
        /\ (resp.err = "TooSmallOfferAmount")
              <=> (resp.computed.spread = 0 \/ resp.computed.commission = 0)

\* at the commission rate zero every call fails with TooSmallOfferAmount
ZeroRateTooSmall ==
    (OfferCalled /\ resp.commission_rate = 0) => resp.err = "TooSmallOfferAmount"

\* the spread and the commission of a call that returns are positive
ReturnedPositive ==
    (OfferCalled /\ resp.err = "ok")
        => (resp.returned[2] > 0 /\ resp.returned[3] > 0)

\* C29: compute_offer_amount fails with TooSmallOfferAmount exactly when the
\* spread or the commission it computed is zero, so for every input at the
\* commission rate zero, and otherwise returns the offer amount, the spread
\* and the commission with spread and commission strictly positive.
C29_TooSmallOfferAmount == TooSmallExactly /\ ZeroRateTooSmall /\ ReturnedPositive

\* a call of compute_swap or compute_offer_amount has returned
PoolReturned ==
    resp.op \in {"compute_swap", "compute_offer_amount"} /\ resp.err = "ok"

\* C30: compute_swap and compute_offer_amount never return a wrapped or cut
\* amount: a call whose wide return or offer, spread or commission does not
\* fit the narrow type fails, and each amount a call returns is the wide
\* value computed.
C30_DownCastChecked ==
    PoolReturned =>
        /\ \A n \in 1..3 : resp.wide[n] < NarrowModulus
        /\ resp.returned = resp.wide

\* compute_offer_amount has returned an offer amount
OfferReturned == OfferCalled /\ resp.err = "ok"

\* the swap of the offer amount returned, on the same pools at the same rate
SwapBack ==
    compute_swap(resp.offer_pool, resp.ask_pool, resp.returned[1],
                 resp.commission_rate)

\* C31: when compute_offer_amount succeeds with an offer amount, compute_swap
\* of that offer amount on the same pools at the same rate succeeds and
\* returns the ask amount, up to one unit of rounding.
C31_OfferInvertsSwap ==
    OfferReturned =>
        /\ SwapBack.err = "ok"
        /\ SwapBack.returned[1] - resp.amount \in -1..1

\* the registered ratio is a whole power of ten: the destination has at least
\* the decimals of the source
WholeRatio(token_ratio) == ~token_ratio.ratio.zero /\ token_ratio.ratio.exp >= 0

\* amount a is amount x times 10^d
TimesPowerOfTen(a, x, d) ==
    IF x.m = 0 THEN a.m = 0 ELSE a.m = x.m /\ a.e = x.e + d

\* update_pair with to.decimals >= from.decimals has stored the destination
\* with the ratio 10^(to.decimals - from.decimals)
RatioStored ==
    (/\ resp.op = "update_pair" /\ resp.err = "ok"
     /\ resp.to.decimals >= resp.from.decimals)
        => /\ asset_key(resp.from.info) \in DOMAIN converter.token_ratio
           /\ converter.token_ratio[asset_key(resp.from.info)] =
                 [info |-> resp.to.info,
                  ratio |-> [zero |-> FALSE,
                             exp |-> resp.to.decimals - resp.from.decimals]]

\* Convert with attached coins sends, for each coin, the amount times the
\* ratio of the destination registered for it
ConvertSends ==
    (resp.op = "convert" /\ resp.err = "ok") =>
        /\ Len(resp.messages) = Len(resp.funds)
        /\ \A n \in 1..Len(resp.funds) :
              LET token_ratio == converter.token_ratio[resp.funds[n].denom]
              IN WholeRatio(token_ratio) =>
                    /\ resp.messages[n].to = resp.sender
                    /\ resp.messages[n].info = token_ratio.info
                    /\ TimesPowerOfTen(resp.messages[n].amount,
                                       resp.funds[n].amount, token_ratio.ratio.exp)

\* Convert by the receive hook sends the amount times the ratio
HookConvertSends ==
    (/\ resp.op = "receive_cw20" /\ resp.err = "ok"
     /\ resp.hook.variant = "Convert" /\ WholeRatio(resp.registered))
        => /\ resp.messages[1].to = resp.sender
           /\ resp.messages[1].info = resp.registered.info
           /\ TimesPowerOfTen(resp.messages[1].amount, resp.amount,
                              resp.registered.ratio.exp)

\* the amount a reverse conversion was paid: the attached coin of the
\* destination's denom, or the amount of the receive hook
ReversePaid ==
    IF resp.op = "convert_reverse"
    THEN resp.funds[SetMin({n \in 1..Len(resp.funds) :
                               resp.funds[n].denom = resp.registered.info})].amount
    ELSE resp.amount

ReverseDone ==
    /\ resp.err = "ok"
    /\ \/ resp.op = "convert_reverse"
       \/ resp.op = "receive_cw20" /\ resp.hook.variant = "ConvertReverse"

\* the reverse conversion of x times the ratio sends back exactly x of the
\* source asset
ReverseSendsBack ==
    (/\ ReverseDone /\ WholeRatio(resp.registered)
     /\ (ReversePaid.m = 0 \/ ReversePaid.e >= resp.registered.ratio.exp))
        => /\ Len(resp.messages) = 1
           /\ resp.messages[1].to = resp.sender
           /\ resp.messages[1].info
                 = (IF resp.op = "convert_reverse" THEN resp.from ELSE resp.hook.from)
           /\ TimesPowerOfTen(ReversePaid, resp.messages[1].amount,
                              resp.registered.ratio.exp)

ReverseHookCalled ==
    /\ resp.op = "receive_cw20"
    /\ resp.hook.variant = "ConvertReverse"

ReverseHookRegistered == asset_key(resp.hook.from) \in DOMAIN converter.token_ratio

ReverseHookDestination == converter.token_ratio[asset_key(resp.hook.from)]

ReverseHookMatches ==
    /\ ReverseHookRegistered
    /\ ~is_native_token(ReverseHookDestination)
    /\ ReverseHookDestination.info = resp.token

\* C33: ConvertReverse through the token receive-hook succeeds only if `from`
\* is registered and its registered destination is a token whose contract
\* address is the token contract that invoked the hook; with a native
\* destination, a different token or no registered ratio the call fails and
\* emits no transfer.
C33_ReverseHookValidated ==
    ReverseHookCalled =>
        /\ resp.err = "ok" => ReverseHookMatches
        /\ ~ReverseHookMatches => resp.err # "ok" /\ resp.messages = <<>>

\* a hook call by the token airi for a source registered to the token usdt is
\* rejected
C33_Witness ==
    /\ ReverseHookCalled
    /\ ReverseHookRegistered
    /\ ReverseHookDestination.info = "usdt"
    /\ resp.token = "airi"
    /\ resp.err = "invalid"
    /\ resp.messages = <<>>

\* ------------------------------------- specification with the contract's holdings
\* One order book (orai, usdt), always listed base first; orders that cross at
\* the prices 1.0 and 2.0; every accepted order deposits its offer amount and
\* every transfer of a response leaves the contract.
BankListing == <<"orai", "usdt">>
BankShapes ==
    { [direction |-> "Buy",  sender |-> "alice", offer |-> 4, ask |-> 4],
      [direction |-> "Sell", sender |-> "bob",   offer |-> 4, ask |-> 4],
      [direction |-> "Buy",  sender |-> "alice", offer |-> 2, ask |-> 4],
      [direction |-> "Sell", sender |-> "bob",   offer |-> 2, ask |-> 1] }

\* the asset an order of the pair escrows: the quote coin of a Buy order, the
\* base coin of a Sell order
escrowed_info(order_book, direction) ==
    IF direction = "Buy" THEN order_book.quote_coin_info ELSE order_book.base_coin_info

\* the amount of one asset that a list of transfer messages sends
sent_amount(messages, info) ==
    SumOver([k \in {x \in DOMAIN messages : messages[x].info = info} |->
                messages[k].amount],
            {x \in DOMAIN messages : messages[x].info = info})

\* the holdings after the transfers of a response have been executed
transferred(holdings, messages) ==
    [info \in BankInfos |-> holdings[info] - sent_amount(messages, info)]

SubmitOrderBank ==
    /\ last_order_id < MaxOrders
    /\ \E shape \in BankShapes :
          submit_order(shape.sender, shape.direction, order_assets(shape, BankListing))
    /\ balance' = IF resp'.err = "ok"
                  THEN [balance EXCEPT
                           ![escrowed_info(orderbooks[resp'.pair], resp'.direction)] =
                               @ + resp'.offer_amount]
                  ELSE balance
    /\ UNCHANGED <<submit_msg, converter>>

CancelOrderBank ==
    /\ \E sender \in Bidders, order_id \in OrderIds :
          cancel_order(sender, order_id, BankListing)
    /\ balance' = transferred(balance, resp'.messages)
    /\ UNCHANGED <<submit_msg, converter>>

ExecuteOrderBookPairBank ==
    /\ \E sender \in Executors : excecute_pair(sender, BankListing)
    /\ balance' = transferred(balance, resp'.messages)
    /\ UNCHANGED <<submit_msg, converter>>

CreateOrderBookPairBank ==
    /\ execute_create_pair(Admin, BankListing[1], BankListing[2], NoPrecision, 0)
    /\ UNCHANGED <<submit_msg, converter, balance>>

RemoveOrderBookPairBank ==
    /\ remove_pair(Admin, BankListing)
    /\ balance' = transferred(balance, resp'.messages)
    /\ UNCHANGED <<submit_msg, converter>>

DistributeRewardBank ==
    /\ \E checked \in BOOLEAN : distribute_reward(Admin, <<BankListing>>, checked)
    /\ balance' = transferred(balance, resp'.messages)
    /\ UNCHANGED <<submit_msg, converter>>

NextBank ==
    \/ SubmitOrderBank
    \/ CancelOrderBank
    \/ ExecuteOrderBookPairBank
    \/ CreateOrderBookPairBank
    \/ RemoveOrderBookPairBank
    \/ DistributeRewardBank
    \/ BlockTime

SpecBank == Init /\ [][NextBank]_vars

\* ------------------------------------------------- C34: holdings cover what is owed
\* the unfilled offer amounts of the resting orders that escrow the asset
OwedOrders(info) ==
    SumOver([k \in {x \in DOMAIN orders :
                       escrowed_info(orderbooks[x[1]], orders[x].direction) = info} |->
                orders[k].offer_amount - orders[k].filled_offer_amount],
            {x \in DOMAIN orders :
                escrowed_info(orderbooks[x[1]], orders[x].direction) = info})

\* the undistributed reward balances of all executors in the asset
RewardSlots(info) ==
    {s \in (DOMAIN executors) \X (1..2) : executors[s[1]].reward_assets[s[2]].info = info}

OwedRewards(info) ==
    SumOver([s \in RewardSlots(info) |-> executors[s[1]].reward_assets[s[2]].amount],
            RewardSlots(info))

\* C34: for each asset, the amount deposited by accepted orders minus
\* everything transferred out is at least the unfilled offer amounts of the
\* resting orders offering the asset plus all undistributed executor reward
\* balances in it.
C34_HoldingsCoverOwed ==
    \A info \in BankInfos : balance[info] >= OwedOrders(info) + OwedRewards(info)

\* ------------------------------------------------- C35: fills within the limits
\* the step is a matching pass that succeeded
PassSucceeded ==
    /\ resp'.op = "execute_order_book_pair"
    /\ resp'.err = "ok"

\* the fill takes no more of the buyer's offer asset per unit of the ask asset
\* it delivers than offer_amount / ask_amount of the buy order, up to one unit:
\* given <= received * offer_amount / ask_amount + 1
BuyerWithinLimit(order, fill) ==
    fill.sell_ask * order.ask_amount
        <= fill.sell_offer * order.offer_amount + order.ask_amount

\* the fill brings the seller no less of its ask asset per unit of the offer
\* asset it takes than ask_amount / offer_amount of the sell order, up to one
\* unit: received >= given * ask_amount / offer_amount - 1
SellerWithinLimit(order, fill) ==
    fill.sell_ask * order.offer_amount + order.offer_amount
        >= fill.sell_offer * order.ask_amount

FillsWithinLimits ==
    PassSucceeded =>
        \A k \in 1..Len(resp'.fills) :
            LET fill == resp'.fills[k]
                pk == pair_key(resp'.asset_infos)
            IN fill.kind = "fill" =>
                  /\ BuyerWithinLimit(orders[<<pk, fill.buy_id>>], fill)
                  /\ SellerWithinLimit(orders[<<pk, fill.sell_id>>], fill)

\* C35: for every fill of a matching pass, before commission and up to 1 unit
\* of rounding, the buyer gives up no more of its offer asset per unit of ask
\* asset received than offer_amount / ask_amount of its order, and the seller
\* receives no less of its ask asset per unit of offer asset given than
\* ask_amount / offer_amount of its order.
C35_FillsWithinLimits == [][FillsWithinLimits]_vars

\* ------------------------------------- specification with what is delivered
\* The SubmitOrder messages of the two entry points together with what came
\* with them: the coin attached to the native message, and on the hook path
\* the token contract that called (info.sender) with the amount it reports.
\* receive_cw20 puts info.sender into provided_asset.info (contract.rs
\* 288-293) and reads only provided_asset.amount afterwards.
DeliveryTokens == {"usdt", "airi"}

ExecuteSubmitOrderDelivery ==
    /\ last_order_id < MaxOrders
    /\ \E sender \in Bidders, direction \in {"Buy", "Sell"}, a \in MessageAmounts,
          denom \in NativeInfos, amount \in MessageSent :
          \E assets \in MessageListings(a) :
              /\ execute_submit_order(sender, direction, assets,
                                      [denom |-> denom, amount |-> amount])
              /\ submit_msg' = IF resp'.err = "ok"
                                THEN [variant |-> "native", sender |-> sender,
                                      direction |-> direction, assets |-> assets,
                                      delivered |-> [info |-> denom, amount |-> amount]]
                                ELSE submit_msg
    /\ UNCHANGED <<converter, balance>>

ReceiveSubmitOrderDelivery ==
    /\ last_order_id < MaxOrders
    /\ \E sender \in Bidders, direction \in {"Buy", "Sell"}, a \in MessageAmounts,
          token \in DeliveryTokens, amount \in MessageSent :
          \E assets \in MessageListings(a) :
              /\ receive_cw20(sender, amount, direction, assets)
              /\ submit_msg' = IF resp'.err = "ok"
                                THEN [variant |-> "receive", sender |-> sender,
                                      direction |-> direction, assets |-> assets,
                                      delivered |-> [info |-> token, amount |-> amount]]
                                ELSE submit_msg
    /\ UNCHANGED <<converter, balance>>

NextDelivery ==
    \/ ExecuteSubmitOrderDelivery
    \/ ReceiveSubmitOrderDelivery
    \/ CreateOrderBookPairMessage
    \/ RemoveOrderBookPairMessage

SpecDelivery == Init /\ [][NextDelivery]_vars

\* ------------------------------------------------- C36: the offer is delivered
\* the order stored by the step
CreatedOrder == orders'[<<resp'.pair, resp'.order_id>>]

\* what the submitter of the stored order has to deliver: the order's offer
\* amount in the asset the order escrows
OfferToDeliver ==
    [info |-> escrowed_info(orderbooks[resp'.pair], CreatedOrder.direction),
     amount |-> CreatedOrder.offer_amount]

OrderCreatedDelivered ==
    last_order_id' = last_order_id + 1 =>
        /\ submit_msg'.delivered = OfferToDeliver
        /\ submit_msg'.variant = "native" => OfferToDeliver.info \in NativeInfos
        /\ submit_msg'.variant = "receive" => OfferToDeliver.info \notin NativeInfos

\* C36: an order is created only when the submitter has delivered exactly
\* offer_amount of the order's own offer asset: on the native path the paid
\* asset is a native token and the attached funds equal its amount, on the
\* receive-hook path the token contract that invoked the hook is the order's
\* offer asset and the amount received equals the offer amount; in every other
\* case no order is stored.
C36_OfferDelivered == [][OrderCreatedDelivered]_vars

\* ------------------------------------------------- C37: assets by the pair
\* a transfer of the amount to the address in the asset is among the messages
Transfers(messages, to, info, amount) ==
    \E k \in DOMAIN messages :
        messages[k] = [to |-> to, info |-> info, amount |-> amount]

\* every transfer of the messages is in the asset
AllIn(messages, info) == \A k \in DOMAIN messages : messages[k].info = info

\* a successful cancel_order refunds in the asset the order escrowed
CancelRefundsEscrowed ==
    (resp'.op = "cancel_order" /\ resp'.err = "ok") =>
        AllIn(resp'.messages,
              escrowed_info(orderbooks[resp'.pair],
                            orders[<<resp'.pair, resp'.order_id>>].direction))

\* a successful remove_order_book_pair refunds every order with an unfilled
\* offer in the asset the order escrowed
RemoveRefundsEscrowed ==
    (resp'.op = "remove_order_book_pair" /\ resp'.err = "ok") =>
        \A pk \in DOMAIN orderbooks \ DOMAIN orderbooks' :
            \A k \in DOMAIN resp'.removed :
                LET order == resp'.removed[k]
                    left == order.offer_amount - order.filled_offer_amount
                IN left > 0 =>
                      Transfers(resp'.messages, order.bidder_addr,
                                escrowed_info(orderbooks[pk], order.direction), left)

\* a successful pass pays every seller in the quote coin and every buyer in
\* the base coin of the pair, and labels the executor's two reward slots
\* base coin first
PassPaysAskAssets ==
    (resp'.op = "execute_order_book_pair" /\ resp'.err = "ok") =>
        LET pk == pair_key(resp'.asset_infos)
            order_book == orderbooks[pk]
            slots == executors'[<<pk, resp'.sender>>].reward_assets
        IN /\ \A k \in DOMAIN resp'.fills :
                  LET fill == resp'.fills[k]
                  IN fill.kind = "fill" =>
                        /\ fill.sell_ask > 0 =>
                              Transfers(resp'.messages, fill.seller,
                                        order_book.quote_coin_info,
                                        fill.sell_ask - fill.reward1)
                        /\ fill.sell_offer > 0 =>
                              Transfers(resp'.messages, fill.buyer,
                                        order_book.base_coin_info,
                                        fill.sell_offer - fill.reward0)
           /\ slots[1].info = order_book.base_coin_info
           /\ slots[2].info = order_book.quote_coin_info

TransfersByPair ==
    /\ CancelRefundsEscrowed
    /\ RemoveRefundsEscrowed
    /\ PassPaysAskAssets

\* C37: the asset of every transfer emitted by cancel_order, by a matching
\* pass and by remove_order_book_pair is determined by the pair's registered
\* base and quote assets and the order's direction, not by the order in which
\* the caller lists the two asset_infos: a refund is in the asset the bidder
\* escrowed, a fill is paid in the order's ask asset, and the same executor
\* reward slots are credited.
C37_TransfersByPair == [][TransfersByPair]_vars

\* ------------------------------------------------- C38: the constant product
\* compute_swap succeeded on a positive offer pool; the rates of the model are
\* all below 1
SwapSucceeded == SwapCalled /\ resp.err = "ok"

\* the product of the pools after the swap is not below the product before
ProductKept ==
    (resp.offer_pool + resp.amount) * (resp.ask_pool - resp.returned[1])
        >= resp.offer_pool * resp.ask_pool

\* the amount returned is not above the constant-product output
\* ask_pool * offer_amount / (offer_pool + offer_amount)
WithinExactOutput ==
    resp.returned[1] * (resp.offer_pool + resp.amount) <= resp.ask_pool * resp.amount

\* C38: for every offer_pool > 0, ask_pool, offer_amount and commission rate in
\* [0,1) on which compute_swap succeeds, (offer_pool + offer_amount) *
\* (ask_pool - return_amount) >= offer_pool * ask_pool for the
\* commission-deducted return_amount; return_amount <= ask_pool and
\* return_amount never exceeds the untruncated constant-product output.
C38_ProductKept ==
    SwapSucceeded =>
        /\ ProductKept
        /\ resp.returned[1] <= resp.ask_pool
        /\ WithinExactOutput

\* ------------------------------------------------- C39: prices are positive
\* every stored order has a derived price above zero
PricesPositive == \A k \in DOMAIN orders : get_price(orders[k]) > 0

\* the last call is a matching pass that found a cross and aborted
PassAbortedOnCross ==
    /\ resp.op = "execute_order_book_pair"
    /\ resp.err = "panic"
    /\ resp.cross

\* C39: every order accepted by submit_order has a strictly positive derived
\* price (get_price, which keeps 3 decimal places), so a matching pass over
\* accepted orders never aborts on a division by a zero execution price.
C39_PricesPositive == PricesPositive /\ ~PassAbortedOnCross

====
